---- MODULE Spec2Model ----
\* Verification model of the planning assistant's orchestration engine
\* (agentic_helper/agent/planning.py, agentic_helper/tools/planning.py,
\* agentic_helper/utils/plans.py, demo.py).
\*
\* Texts are sequences of characters (one-character strings).  The emoji
\* glyphs the program prints are single characters of a text and are written
\* here as the one-element tokens "(x)" (the cross-mark failure marker),
\* "(ok)" (check mark), "(mag)" (magnifier) and "(clip)" (clipboard).
EXTENDS Integers, Sequences, FiniteSets, TLC

\* ---------------------------------------------------------------------
\* Text primitives (Python str operations used by the program)
\* ---------------------------------------------------------------------

\* the failure marker glyph tested by should_continue (planning.py:88)
FailMark == "(x)"

\* characters str.strip() and str.split() treat as whitespace
Whitespace == {" ", "\t", "\n", "\r"}

\* str.lower() on one character
LowerChar(c) ==
  CASE c = "A" -> "a" [] c = "B" -> "b" [] c = "C" -> "c" [] c = "D" -> "d"
    [] c = "E" -> "e" [] c = "F" -> "f" [] c = "G" -> "g" [] c = "H" -> "h"
    [] c = "I" -> "i" [] c = "J" -> "j" [] c = "K" -> "k" [] c = "L" -> "l"
    [] c = "M" -> "m" [] c = "N" -> "n" [] c = "O" -> "o" [] c = "P" -> "p"
    [] c = "Q" -> "q" [] c = "R" -> "r" [] c = "S" -> "s" [] c = "T" -> "t"
    [] c = "U" -> "u" [] c = "V" -> "v" [] c = "W" -> "w" [] c = "X" -> "x"
    [] c = "Y" -> "y" [] c = "Z" -> "z" [] OTHER -> c

\* str.lower()
Lower(t) == [i \in 1..Len(t) |-> LowerChar(t[i])]

\* str.strip(): drop leading and trailing whitespace
RECURSIVE StripLeft(_)
StripLeft(t) ==
  IF t # <<>> /\ Head(t) \in Whitespace THEN StripLeft(Tail(t)) ELSE t

RECURSIVE StripRight(_)
StripRight(t) ==
  IF t # <<>> /\ t[Len(t)] \in Whitespace
  THEN StripRight(SubSeq(t, 1, Len(t) - 1)) ELSE t

Strip(t) == StripRight(StripLeft(t))

\* str.startswith(p)
StartsWith(t, p) == Len(t) >= Len(p) /\ SubSeq(t, 1, Len(p)) = p

\* Python's `p in t` for strings
Contains(t, p) ==
  \/ p = <<>>
  \/ \E i \in 1..(Len(t) - Len(p) + 1) :
       t[i] = p[1] /\ SubSeq(t, i, i + Len(p) - 1) = p

\* len(t.split()): the number of maximal runs of non-whitespace characters,
\* counted by a left-to-right scan as split() does
RECURSIVE SplitCount(_, _)
SplitCount(t, inWord) ==
  IF t = <<>> THEN 0
  ELSE IF Head(t) \in Whitespace THEN SplitCount(Tail(t), FALSE)
  ELSE (IF inWord THEN 0 ELSE 1) + SplitCount(Tail(t), TRUE)

\* any(phrase in content for phrase in phrases)
AnyIn(phrases, content) == \E p \in phrases : Contains(content, p)

\* ---------------------------------------------------------------------
\* Intent classifier  (PlanningAgent._is_planning_request)
\* ---------------------------------------------------------------------

\* planning.py:148-162
explicit_planning_indicators ==
  { <<"c", "r", "e", "a", "t", "e", " ", "a", " ", "p", "l", "a", "n", " ", "f", "o", "r">>,
    <<"m", "a", "k", "e", " ", "a", " ", "p", "l", "a", "n", " ", "f", "o", "r">>,
    <<"s", "c", "h", "e", "d", "u", "l", "e", " ", "m", "y">>,
    <<"p", "l", "a", "n", " ", "m", "y", " ", "d", "a", "y">>,
    <<"o", "r", "g", "a", "n", "i", "z", "e", " ", "m", "y", " ", "d", "a", "y">>,
    <<"i", " ", "n", "e", "e", "d", " ", "a", " ", "s", "c", "h", "e", "d", "u", "l", "e">>,
    <<"h", "e", "l", "p", " ", "m", "e", " ", "s", "c", "h", "e", "d", "u", "l", "e">>,
    <<"i", " ", "w", "a", "n", "t", " ", "t", "o", " ", "p", "l", "a", "n">>,
    <<"c", "r", "e", "a", "t", "e", " ", "m", "y", " ", "s", "c", "h", "e", "d", "u", "l", "e">>,
    <<"d", "i", "v", "i", "d", "e", " ", "t", "h", "e", " ", "t", "i", "m", "e">>,
    <<"h", "e", "l", "p", " ", "m", "e", " ", "d", "i", "v", "i", "d", "e">>,
    <<"s", "p", "l", "i", "t", " ", "m", "y", " ", "t", "i", "m", "e">>,
    <<"o", "r", "g", "a", "n", "i", "z", "e", " ", "m", "y", " ", "t", "i", "m", "e">> }

\* planning.py:166-190
activity_indicators ==
  { <<"h", "o", "u", "r">>,
    <<"h", "o", "u", "r", "s">>,
    <<"m", "i", "n", "u", "t", "e", "s">>,
    <<"a", "m">>,
    <<"p", "m">>,
    <<"m", "o", "r", "n", "i", "n", "g">>,
    <<"a", "f", "t", "e", "r", "n", "o", "o", "n">>,
    <<"e", "v", "e", "n", "i", "n", "g">>,
    <<"c", "o", "d", "e">>,
    <<"c", "o", "d", "i", "n", "g">>,
    <<"e", "x", "e", "r", "c", "i", "s", "e">>,
    <<"w", "o", "r", "k">>,
    <<"s", "t", "u", "d", "y">>,
    <<"c", "o", "o", "k">>,
    <<"c", "l", "e", "a", "n">>,
    <<"r", "e", "a", "d">>,
    <<"m", "e", "e", "t", "i", "n", "g">>,
    <<"c", "a", "l", "l">>,
    <<"p", "r", "o", "j", "e", "c", "t">>,
    <<"t", "a", "s", "k">>,
    <<"b", "r", "e", "a", "k">>,
    <<"l", "u", "n", "c", "h">>,
    <<"d", "i", "n", "n", "e", "r">> }

\* planning.py:195-209
conversational_phrases ==
  { <<"c", "a", "n", " ", "y", "o", "u", " ", "h", "e", "l", "p">>,
    <<"d", "o", " ", "y", "o", "u", " ", "h", "e", "l", "p">>,
    <<"a", "r", "e", " ", "y", "o", "u", " ", "a", "b", "l", "e">>,
    <<"w", "h", "a", "t", " ", "c", "a", "n", " ", "y", "o", "u", " ", "d", "o">>,
    <<"h", "o", "w", " ", "d", "o", " ", "y", "o", "u">>,
    <<"t", "e", "l", "l", " ", "m", "e", " ", "a", "b", "o", "u", "t">>,
    <<"e", "x", "p", "l", "a", "i", "n">>,
    <<"w", "h", "a", "t", " ", "i", "s">>,
    <<"c", "a", "n", " ", "i">>,
    <<"i", "s", " ", "i", "t", " ", "p", "o", "s", "s", "i", "b", "l", "e">>,
    <<"w", "o", "u", "l", "d", " ", "y", "o", "u">>,
    <<"c", "o", "u", "l", "d", " ", "y", "o", "u", " ", "h", "e", "l", "p">>,
    <<"c", "a", "n", " ", "y", "o", "u", " ", "p", "l", "a", "n">> }

\* planning.py:212-232
concrete_scheduling_phrases ==
  { <<"s", "c", "h", "e", "d", "u", "l", "e", " ", "m", "y">>,
    <<"c", "r", "e", "a", "t", "e", " ", "a", " ", "d", "e", "t", "a", "i", "l", "e", "d", " ", "s", "c", "h", "e", "d", "u", "l", "e">>,
    <<"s", "p", "e", "c", "i", "f", "i", "c", " ", "t", "i", "m", "e", "s">>,
    <<"f", "r", "o", "m", " ", "9", "a", "m">>,
    <<"a", "t", " ", "1", "0", "a", "m">>,
    <<"u", "n", "t", "i", "l", " ", "5", "p", "m">>,
    <<"9", ":", "0", "0">>,
    <<"1", "0", ":", "3", "0">>,
    <<":", "0", "0">>,
    <<":", "3", "0">>,
    <<"a", "m", " ">>,
    <<"p", "m", " ">>,
    <<"o", "'", "c", "l", "o", "c", "k">>,
    <<"d", "i", "v", "i", "d", "e", " ", "t", "h", "e", " ", "t", "i", "m", "e">>,
    <<"t", "i", "m", "e", " ", "p", "r", "o", "p", "e", "r", "l", "y">>,
    <<"s", "p", "l", "i", "t", " ", "t", "h", "e", " ", "t", "i", "m", "e">>,
    <<"o", "r", "g", "a", "n", "i", "z", "e", " ", "t", "h", "e", " ", "t", "i", "m", "e">>,
    <<"t", "i", "m", "e", " ", "b", "l", "o", "c", "k">>,
    <<"t", "i", "m", "e", " ", "a", "l", "l", "o", "c", "a", "t", "i", "o", "n">> }

\* the value standing for "no message" (messages[-1] if messages else None)
NoMessage == [type |-> "none"]

\* is_detailed = len(content.split()) >= 6  (planning.py:193)
DetailedWords == 6

\* should_plan with the exclusion of conversational texts left out
should_plan_no_exclusion(content) ==
  \/ /\ AnyIn(concrete_scheduling_phrases, content)
     /\ AnyIn(activity_indicators, content)
  \/ /\ AnyIn(explicit_planning_indicators, content)
     /\ AnyIn(activity_indicators, content)
     /\ SplitCount(content, FALSE) >= DetailedWords

\* should_plan taking a concrete scheduling phrase alone as sufficient
should_plan_schedule_alone(content) ==
  \/ AnyIn(concrete_scheduling_phrases, content)
  \/ /\ AnyIn(explicit_planning_indicators, content)
     /\ AnyIn(activity_indicators, content)
     /\ SplitCount(content, FALSE) >= DetailedWords
     /\ ~AnyIn(conversational_phrases, content)

\* should_plan of _is_planning_request for an already normalised content
should_plan(content) ==
  LET has_explicit_request == AnyIn(explicit_planning_indicators, content)
      has_activities == AnyIn(activity_indicators, content)
      is_detailed == SplitCount(content, FALSE) >= DetailedWords
      is_conversational == AnyIn(conversational_phrases, content)
      wants_concrete_schedule == AnyIn(concrete_scheduling_phrases, content)
  IN  \/ (wants_concrete_schedule /\ has_activities)
      \/ (has_explicit_request /\ has_activities /\ is_detailed
            /\ ~is_conversational)

\* content = message.content.lower().strip()  (planning.py:146)
normalise(text) == Strip(Lower(text))

\* _is_planning_request(message): False for an absent message, otherwise the
\* decision on the lower-cased, stripped content
is_planning_request(message) ==
  IF message = NoMessage THEN FALSE
  ELSE \E content \in {normalise(message.content)} : should_plan(content)


\* ---------------------------------------------------------------------
\* Texts the program produces or is given in the model
\* ---------------------------------------------------------------------

\* content of an assistant message that only carries tool calls
T_Empty == <<>>

\* a conversational user text
T_Hello == <<"H", "e", "l", "l", "o", " ", "t", "h", "e", "r", "e">>

\* a user text asking for a concrete schedule
T_Sched == <<"S", "c", "h", "e", "d", "u", "l", "e", " ", "m", "y", " ", "l", "u", "n", "c", "h">>

\* a plain-text answer of the LLM
T_Answer == <<"H", "e", "r", "e", " ", "y", "o", "u", " ", "g", "o", ".">>

\* str(e) of an exception raised by a collaborator
T_Exc == <<"t", "i", "m", "e", "o", "u", "t">>

\* tools/planning.py:200-204
T_PathPrefix == <<"p", "l", "a", "n", "s", "/", "p", "l", "a", "n", "_">>

\* a plan date in the YYYY-MM-DD form
D_Good == <<"2", "0", "2", "5", "-", "0", "1", "-", "0", "1">>


\* ---------------------------------------------------------------------
\* Bounds of the model
\* ---------------------------------------------------------------------

\* longest conversation history handed to chat()
MaxHistory == 2

\* last value of the wall clock (seconds) in a run
MaxClock == 1

\* ---------------------------------------------------------------------
\* Plan store  (agentic_helper/tools/planning.py, models.py)
\* ---------------------------------------------------------------------

\* Optional[int]: the empty set is None, {n} is the integer n
None == {}

Some(n) == {n}

\* Python truthiness of an Optional[int]
Truthy(opt) == opt # None /\ opt # Some(0)

\* DailyPlan objects the LLM passes to save_daily_plan in the model
TodoTask(id, dur) == [id |-> id, estimated_duration |-> dur, status |-> "pending"]

\* the test marker looked for in the notes (utils/plans.py:68)
T_SmokeMarker == <<"s", "t", "o", "r", "a", "g", "e", " ", "s", "m", "o", "k", "e", " ", "t", "e", "s", "t">>

DailyPlan(date, tasks) ==
  [plan_id |-> "plan_x", date |-> date, tasks |-> tasks,
   created_at |-> None, current_time |-> None,
   total_tasks |-> None, estimated_total_duration |-> None,
   planning_notes |-> <<"F", "o", "c", "u", "s", " ", "f", "i", "r", "s",
                        "t">>]

GoodPlan == DailyPlan(D_Good, <<TodoTask("t1", 30), TodoTask("t2", 45)>>)

SlashPlan == DailyPlan(<<"2", "0", "2", "5", "/", "0", "1", "/", "0", "1">>, <<TodoTask("t1", 30)>>)

\* the sample plan of scripts/storage_smoke.py:12-45
SmokePlan ==
  [DailyPlan(D_Good, <<TodoTask("task_1", 60), TodoTask("task_2", 30)>>)
     EXCEPT !.plan_id = "plan_smoke_test",
            !.total_tasks = Some(2),
            !.estimated_total_duration = Some(90),
            !.planning_notes = <<"S", "t", "o", "r", "a", "g", "e", " ", "s",
                                 "m", "o",
                                 "k", "e",
                                 " ", "t",
                                 "e", "s",
                                 "t", " ",
                                 "p", "l",
                                 "a", "n">>]

\* sum(int(t.get("estimated_duration", 0)) for t in tasks)
RECURSIVE SumDurations(_)
SumDurations(tasks) ==
  IF tasks = <<>> THEN 0
  ELSE Head(tasks).estimated_duration + SumDurations(Tail(tasks))

\* datetime.now().strftime('%H%M%S') for the first seconds of a day
HHMMSS(now) ==
  <<"0", "0", "0", "0", "0",
    CASE now = 0 -> "0" [] now = 1 -> "1" [] now = 2 -> "2" [] now = 3 -> "3"
      [] now = 4 -> "4" [] now = 5 -> "5" [] now = 6 -> "6" [] now = 7 -> "7"
      [] now = 8 -> "8" [] OTHER -> "9">>

\* str(Path("plans") / f"plan_{plan.date}_{HHMMSS}.json")
plan_filepath(date, now) ==
  T_PathPrefix \o date \o <<"_">> \o HHMMSS(now) \o <<".", "j", "s", "o",
                                                      "n">>

\* open(filepath, "w") succeeds when the file's directory exists: mkdir
\* creates only plans/, so a date holding a path separator names a missing
\* directory and open() raises
open_for_write_ok(date) == ~Contains(date, <<"/">>)

\* "Ensure totals exist" computing both totals whatever the plan carries
plan_dict_of_recomputed(plan) ==
  [plan EXCEPT
     !.total_tasks = Some(Len(plan.tasks)),
     !.estimated_total_duration = Some(SumDurations(plan.tasks))]

\* plan_dict after "Ensure totals exist" (tools/planning.py:206-215)
plan_dict_of(plan) ==
  [plan EXCEPT
     !.total_tasks =
        IF Truthy(plan.total_tasks) THEN plan.total_tasks
        ELSE Some(Len(plan.tasks)),
     !.estimated_total_duration =
        IF Truthy(plan.estimated_total_duration)
        THEN plan.estimated_total_duration
        ELSE Some(SumDurations(plan.tasks))]

\* st_mtime of the next file written: later than every file of the store
RECURSIVE MaxMtime(_)
MaxMtime(files) ==
  IF DOMAIN files = {} THEN 0
  ELSE LET f == CHOOSE g \in DOMAIN files : TRUE
           rest == MaxMtime([g \in DOMAIN files \ {f} |-> files[g]])
       IN  IF files[f].mtime > rest THEN files[f].mtime ELSE rest

\* the file system after open(path, "w") and json.dump(data): the file
\* holds data and carries the newest modification time; saved remembers the
\* modification time the file had when a save wrote it
write_file(files, path, data) ==
  [f \in DOMAIN files \cup {path} |->
     IF f = path
     THEN [data |-> data, mtime |-> MaxMtime(files) + 1,
           saved |-> MaxMtime(files) + 1]
     ELSE files[f]]

\* the file system after update_task_status rewrote an existing file
rewrite_file(files, path, data) ==
  [files EXCEPT ![path] = [data |-> data, mtime |-> MaxMtime(files) + 1,
                           saved |-> files[path].saved]]

\* save_daily_plan(plan): the returned text, the files afterwards and
\* whether the call wrote a file
save_daily_plan(plan, now, files) ==
  LET filepath == plan_filepath(plan.date, now)
  IN  IF open_for_write_ok(plan.date)
      THEN [content |-> filepath,
            files |-> write_file(files, filepath, plan_dict_of(plan)),
            wrote |-> TRUE]
      ELSE [content |-> <<"E", "r", "r", "o", "r", " ", "s", "a", "v", "i",
                          "n", "g", " ", "p", "l",
                          "a", "n", ":", " ">> \o T_Exc,
            files |-> files,
            wrote |-> FALSE]

\* search_web(query) for the three conditions of the search collaborator:
\* not importable, answering, raising
search_web(env) ==
  IF env = "unavailable" THEN <<"(mag)", " ", "W", "e", "b", " ", "s", "e",
                                "a", "r", "c",
                                "h", " ", "n",
                                "o", "t", " ",
                                "a", "v", "a",
                                "i", "l", "a",
                                "b", "l", "e",
                                ".", " ", "Q",
                                "u", "e", "r",
                                "y", " ", "w",
                                "a", "s", ":",
                                " ", "'", "q",
                                "'">>
  ELSE IF env = "ok" THEN <<"(mag)", " ", "S", "e", "a", "r", "c", "h", " ",
                            "r", "e", "s", "u",
                            "l", "t", "s", " ",
                            "f", "o", "r", " ",
                            "'", "q", "'", ":",
                            "\n">> \o <<"l", "u", "n", "c", "h", " ", "i",
                                        "d",
                                        "e",
                                        "a",
                                        "s">>
  ELSE <<"(x)", " ", "S", "e", "a", "r", "c", "h", " ", "f", "a", "i", "l",
         "e", "d", ":", " ">> \o T_Exc

\* ---------------------------------------------------------------------
\* Messages and the graph  (PlanningAgent._build_graph)
\* ---------------------------------------------------------------------

HumanMessage(content) ==
  [type |-> "human", content |-> content, name |-> "", tool_calls |-> <<>>]

AIMessage(content, calls) ==
  [type |-> "ai", content |-> content, name |-> "", tool_calls |-> calls]

ToolMessage(content, name) ==
  [type |-> "tool", content |-> content, name |-> name, tool_calls |-> <<>>]

\* tool-call requests the LLM can make in the model
SearchCall == [name |-> "search_web", args |-> [query |-> "q"]]

SaveCall(plan) == [name |-> "save_daily_plan", args |-> [plan |-> plan]]

\* one LLM response may request several tools: the batches of the model
\* hold a save or a search alone, and a save before or after a search
ToolBatches ==
  {<<SearchCall>>, <<SaveCall(GoodPlan)>>, <<SaveCall(SlashPlan)>>,
   <<SaveCall(GoodPlan), SearchCall>>, <<SearchCall, SaveCall(GoodPlan)>>,
   <<SearchCall, SaveCall(SlashPlan)>>}

\* a ceiling two steps higher than the configured one
RecursionLimitRaised == 10 + 2

\* config = {"recursion_limit": 10, ...}  (planning.py:294): the number of
\* node steps graph.invoke runs before it raises GraphRecursionError
RecursionLimit == 10

\* tools_condition looking at the kind of the last message only
tools_condition_any_ai(msgs) ==
  IF msgs # <<>> /\ msgs[Len(msgs)].type = "ai" THEN "tools" ELSE "__end__"

\* tools_condition (langgraph.prebuilt): "tools" when the last message is
\* an assistant message carrying tool calls, otherwise "__end__"
tools_condition(msgs) ==
  IF msgs # <<>> /\ msgs[Len(msgs)].type = "ai"
       /\ msgs[Len(msgs)].tool_calls # <<>>
  THEN "tools" ELSE "__end__"

\* _should_continue ending on any tool result that is not failure-marked
should_continue_any_tool(msgs) ==
  IF msgs = <<>> THEN "continue"
  ELSE IF ~StartsWith(msgs[Len(msgs)].content, <<FailMark>>)
       THEN "__end__" ELSE "continue"

\* _should_continue ending the loop after create_daily_plan as well
should_continue_after_create(msgs) ==
  IF msgs = <<>> THEN "continue"
  ELSE LET last_message == msgs[Len(msgs)]
       IN  IF last_message.name \in {"save_daily_plan", "create_daily_plan"}
                /\ ~StartsWith(last_message.content, <<FailMark>>)
           THEN "__end__"
           ELSE "continue"

\* _should_continue never ending the loop
should_continue_never_ends(msgs) == "continue"

\* PlanningAgent._should_continue
should_continue(msgs) ==
  IF msgs = <<>> THEN "continue"
  ELSE LET last_message == msgs[Len(msgs)]
       IN  IF last_message.name = "save_daily_plan"
                /\ ~StartsWith(last_message.content, <<FailMark>>)
           THEN "__end__"
           ELSE "continue"

\* the conditional edge after "tools": {"continue": "agent", "__end__": END}
tools_edge(msgs) ==
  IF should_continue(msgs) = "continue" THEN "agent" ELSE "__end__"

\* the except branch of _agent_node without the failure marker
error_message_unmarked(e) == AIMessage(e, <<>>)

\* error_message of the except branch of _agent_node (planning.py:137-140)
error_message(e) == AIMessage(<<"(x)", " ", "I", " ", "e", "n", "c", "o",
                                "u", "n", "t",
                                "e", "r", "e",
                                "d", " ", "a",
                                "n", " ", "e",
                                "r", "r", "o",
                                "r", ":", " ">> \o e, <<>>)

\* what llm_with_tools.invoke can do: answer in plain text, request a batch
\* of tools, or raise
LLMOutcomes ==
  {[kind |-> "text", calls |-> <<>>], [kind |-> "raise", calls |-> <<>>]}
    \cup {[kind |-> "tools", calls |-> b] : b \in ToolBatches}

\* the message _agent_node returns for an outcome of the LLM invocation
agent_response(outcome) ==
  IF outcome.kind = "raise" THEN error_message(T_Exc)
  ELSE IF outcome.kind = "tools" THEN AIMessage(T_Empty, outcome.calls)
  ELSE AIMessage(T_Answer, <<>>)

\* the message _agent_node hands to the classifier (planning.py:101)
latest_message(msgs) == IF msgs # <<>> THEN msgs[Len(msgs)] ELSE NoMessage

\* the mode _agent_node selects (planning.py:101-112)
select_mode(msgs, state_mode) ==
  IF is_planning_request(latest_message(msgs)) \/ state_mode = "planning"
  THEN "planning" ELSE "chat"

\* ---------------------------------------------------------------------
\* Context assembly  (utils/plans.py, PlanningAgent._get_context_message)
\* ---------------------------------------------------------------------

\* str(d) of one decimal digit
DigitChar(d) ==
  CASE d = 0 -> "0" [] d = 1 -> "1" [] d = 2 -> "2" [] d = 3 -> "3"
    [] d = 4 -> "4" [] d = 5 -> "5" [] d = 6 -> "6" [] d = 7 -> "7"
    [] d = 8 -> "8" [] OTHER -> "9"

\* str(n) of a natural number, as an f-string formats it
RECURSIVE IntText(_)
IntText(n) ==
  IF n < 10 THEN <<DigitChar(n)>>
  ELSE Append(IntText(n \div 10), DigitChar(n % 10))

\* the value standing for "no plan" (get_latest_plan returning None)
NoPlan == [plan_id |-> "none"]

\* the plans get_latest_plan skips (utils/plans.py:67-69)
is_sample_plan(data) ==
  \/ data.plan_id = "plan_smoke_test"
  \/ Contains(Lower(data.planning_notes), T_SmokeMarker)

\* sorted(plan_files, key=st_mtime, reverse=True)
RECURSIVE sorted_by_mtime_desc(_)
sorted_by_mtime_desc(files) ==
  IF DOMAIN files = {} THEN <<>>
  ELSE LET newest == CHOOSE f \in DOMAIN files :
                        \A g \in DOMAIN files : files[g].mtime <= files[f].mtime
       IN  <<newest>> \o
             sorted_by_mtime_desc([g \in DOMAIN files \ {newest} |-> files[g]])

\* the scan of get_latest_plan over the sorted files: the first plan that is
\* not a sample
RECURSIVE first_non_sample(_, _)
first_non_sample(paths, files) ==
  IF paths = <<>> THEN NoPlan
  ELSE IF is_sample_plan(files[Head(paths)].data)
       THEN first_non_sample(Tail(paths), files)
       ELSE files[Head(paths)].data

\* get_latest_plan removing the sample plans it passes over
get_latest_plan_pruning(files) ==
  [plan |-> first_non_sample(sorted_by_mtime_desc(files), files),
   files |-> [f \in {g \in DOMAIN files : ~is_sample_plan(files[g].data)}
                |-> files[f]]]

\* get_latest_plan(): the plan found and the plans directory afterwards
get_latest_plan(files) ==
  [plan |-> first_non_sample(sorted_by_mtime_desc(files), files),
   files |-> files]

\* len([t for t in tasks if t.get("status") == "completed"])
RECURSIVE CountCompleted(_)
CountCompleted(tasks) ==
  IF tasks = <<>> THEN 0
  ELSE (IF Head(tasks).status = "completed" THEN 1 ELSE 0)
         + CountCompleted(Tail(tasks))

\* create_plan_summary(plan_data)
create_plan_summary(plan_data) ==
  <<"(chart)", " ", "P", "l", "a", "n", " ", "S", "u", "m", "m", "a", "r",
    "y", " ", "f", "o", "r", " ">> \o plan_data.date \o <<":", " ">>
    \o IntText(CountCompleted(plan_data.tasks)) \o <<"/">>
    \o IntText(Len(plan_data.tasks)) \o <<" ", "t", "a", "s", "k", "s", " ",
                                          "c",
                                          "o",
                                          "m",
                                          "p",
                                          "l",
                                          "e",
                                          "t",
                                          "e",
                                          "d">>

\* utils/plans.py:24-28: the glyph of a task status, hourglass by default
status_emoji(status) ==
  CASE status = "pending" -> "(wait)"
    [] status = "in_progress" -> "(cycle)"
    [] status = "completed" -> "(ok)"
    [] OTHER -> "(wait)"

\* utils/plans.py:36-41, for the task fields of the model: position, status
\* glyph and duration
RECURSIVE format_tasks(_, _)
format_tasks(tasks, i) ==
  IF tasks = <<>> THEN <<>>
  ELSE <<"\n">> \o IntText(i) \o <<".", " ", status_emoji(Head(tasks).status),
          " ", "(">> \o IntText(Head(tasks).estimated_duration)
         \o <<" ", "m", "i", "n", ")", "\n">>
         \o format_tasks(Tail(tasks), i + 1)

\* format_plan_for_display(plan_data); total_duration // 60 raises TypeError
\* on a plan without estimated_total_duration and the except branch answers
format_plan_for_display(plan_data) ==
  IF plan_data.estimated_total_duration = None THEN <<"(x)", " ", "E", "r",
                                                      "r",
                                                      "o",
                                                      "r",
                                                      " ",
                                                      "f",
                                                      "o",
                                                      "r",
                                                      "m",
                                                      "a",
                                                      "t",
                                                      "t",
                                                      "i",
                                                      "n",
                                                      "g",
                                                      " ",
                                                      "p",
                                                      "l",
                                                      "a",
                                                      "n",
                                                      ":",
                                                      " ",
                                                      "u",
                                                      "n",
                                                      "s",
                                                      "u",
                                                      "p",
                                                      "p",
                                                      "o",
                                                      "r",
                                                      "t",
                                                      "e",
                                                      "d",
                                                      " ",
                                                      "o",
                                                      "p",
                                                      "e",
                                                      "r",
                                                      "a",
                                                      "n",
                                                      "d">>
  ELSE LET total_duration ==
             CHOOSE n \in plan_data.estimated_total_duration : TRUE
       IN  <<"\n", "(cal)", " ", "D", "a", "i", "l", "y", " ", "P", "l", "a",
             "n", " ", "f", "o", "r", " ">> \o plan_data.date \o <<"\n",
                                                                   "(timer)",
                                                                   " ",
                                                                   "T",
                                                                   "o",
                                                                   "t",
                                                                   "a",
                                                                   "l",
                                                                   " ",
                                                                   "e",
                                                                   "s",
                                                                   "t",
                                                                   "i",
                                                                   "m",
                                                                   "a",
                                                                   "t",
                                                                   "e",
                                                                   "d",
                                                                   " ",
                                                                   "t",
                                                                   "i",
                                                                   "m",
                                                                   "e",
                                                                   ":",
                                                                   " ">>
             \o IntText(total_duration) \o <<" ", "(">>
             \o IntText(total_duration \div 60) \o <<"h", " ">>
             \o IntText(total_duration % 60) \o <<"m", ")">>
             \o <<"\n", "(memo)", " ", "T", "o", "t", "a", "l", " ", "t",
                  "a", "s", "k", "s", ":", " ">> \o IntText(Len(plan_data.tasks))
             \o format_tasks(plan_data.tasks, 1)
             \o (IF plan_data.planning_notes # <<>>
                 THEN <<"\n", "(bulb)", " ", "P", "l", "a", "n", "n", "i",
                        "n", "g", " ", "N", "o", "t",
                        "e", "s", ":", "\n">> \o plan_data.planning_notes ELSE <<>>)

\* planning.py:252
T_NoPlansNotice == <<"(clip)", " ", "N", "o", " ", "p", "r", "e", "v", "i", "o", "u", "s",
    " ", "p", "l", "a", "n", "s", " ", "f", "o", "u", "n", "d", ".">>

\* planning.py:258
T_ContextHead == <<"(chart)", " ", "C", "u", "r", "r", "e", "n", "t", " ", "P", "l", "a",
    "n", " ", "C", "o", "n", "t", "e", "x", "t", ":", "\n", "\n">>

\* planning.py:262
T_ContextDetails == <<"\n", "\n", "L", "a", "t", "e", "s", "t", " ", "P", "l", "a", "n", " ",
    "D", "e", "t", "a", "i", "l", "s", ":", "\n">>

\* planning.py:265
T_ContextTail == <<"\n", "\n", "Y", "o", "u", " ", "c", "a", "n", " ", "r", "e", "f", "e",
    "r", "e", "n", "c", "e", " ", "t", "h", "i", "s", " ", "p", "l", "a",
    "n", ".">>

\* prompts.py:22 (first words of PLANNING_AGENT_PROMPT)
T_PlanningPrompt == <<"Y", "o", "u", " ", "a", "r", "e", " ", "a", "n", " ", "e", "x", "p",
    "e", "r", "t", " ", "A", "I", " ", "p", "l", "a", "n", "n", "i", "n",
    "g", " ", "a", "s", "s", "i", "s", "t", "a", "n", "t">>

\* prompts.py:5 (first words of GENERAL_CHAT_PROMPT)
T_ChatPrompt == <<"Y", "o", "u", " ", "a", "r", "e", " ", "a", " ", "h", "e", "l", "p",
    "f", "u", "l", " ", "A", "I", " ", "p", "l", "a", "n", "n", "i", "n",
    "g", " ", "a", "s", "s", "i", "s", "t", "a", "n", "t">>

SystemMessage(content) ==
  [type |-> "system", content |-> content, name |-> "", tool_calls |-> <<>>]

\* _get_context_message with the context attached in every mode
get_context_message_always(state_mode, files) ==
  LET latest == get_latest_plan(files)
  IN  [msgs |-> <<AIMessage(IF latest.plan = NoPlan THEN T_NoPlansNotice
                            ELSE T_ContextHead
                                   \o create_plan_summary(latest.plan)
                                   \o T_ContextDetails
                                   \o format_plan_for_display(latest.plan)
                                   \o T_ContextTail, <<>>)>>,
       files |-> latest.files]

\* _get_context_message(state): no message outside planning mode, the notice
\* when there is no latest plan, the summary and the rendering otherwise;
\* with the plans directory afterwards
get_context_message(state_mode, files) ==
  IF state_mode # "planning" THEN [msgs |-> <<>>, files |-> files]
  ELSE LET latest == get_latest_plan(files)
       IN  IF latest.plan = NoPlan
           THEN [msgs |-> <<AIMessage(T_NoPlansNotice, <<>>)>>,
                 files |-> latest.files]
           ELSE [msgs |-> <<AIMessage(T_ContextHead
                                        \o create_plan_summary(latest.plan)
                                        \o T_ContextDetails
                                        \o format_plan_for_display(latest.plan)
                                        \o T_ContextTail, <<>>)>>,
                 files |-> latest.files]

\* full_messages of _agent_node (planning.py:105-121) for the mode the
\* node selected, and the plans directory after assembling them
full_messages(msgs, selected_mode, files) ==
  LET system_message ==
        SystemMessage(IF selected_mode = "planning" THEN T_PlanningPrompt
                      ELSE T_ChatPrompt)
      context == get_context_message(selected_mode, files)
  IN  [msgs |-> <<system_message>> \o context.msgs \o msgs,
       files |-> context.files]

\* chat() returning the last assistant message instead of the last message
RECURSIVE final_text_last_ai(_)
final_text_last_ai(msgs) ==
  IF msgs = <<>> THEN <<>>
  ELSE IF msgs[Len(msgs)].type = "ai" THEN msgs[Len(msgs)].content
  ELSE final_text_last_ai(SubSeq(msgs, 1, Len(msgs) - 1))

\* final_message.content of chat() (planning.py:298-304)
final_text(msgs) == msgs[Len(msgs)].content

\* the string chat() returns from its except branch (planning.py:308-310)
chat_error_text(e) == <<"(x)", " ", "E", "r", "r", "o", "r", ":", " ">> \o e

\* ---------------------------------------------------------------------
\* The other tools of the registry  (agentic_helper/tools/planning.py)
\* ---------------------------------------------------------------------

\* a plan the LLM filled in carelessly: two tasks with one id, a task count
\* that is not the number of tasks, a zero total duration
NextDayPlan ==
  [DailyPlan(<<"2", "0", "2", "5", "-", "0", "1", "-", "0", "2">>, <<TodoTask("t1", 30), TodoTask("t1", 45)>>)
     EXCEPT !.total_tasks = Some(5), !.estimated_total_duration = Some(0)]

\* str(e) of the FileNotFoundError raised by open(plan_file, "r")
T_NoFile == <<"N", "o", " ", "s", "u", "c", "h", " ", "f", "i", "l", "e">>

\* a storage location no save returned
MissingPath == <<"p", "l", "a", "n", "s", "/", "p", "l", "a", "n", "_", "n", "o", "n",
    "e", ".", "j", "s", "o", "n">>

\* tools/planning.py:233
T_LoadedFor == <<"(ok)", " ", "L", "o", "a", "d", "e", "d", " ", "p", "l", "a", "n", " ",
    "f", "o", "r", " ">>

\* tools/planning.py:233
T_With == <<" ", "w", "i", "t", "h", " ">>

\* tools/planning.py:233
T_Tasks == <<" ", "t", "a", "s", "k", "s">>

\* tools/planning.py:235
T_LoadErrPrefix == <<"(x)", " ", "E", "r", "r", "o", "r", " ", "l", "o", "a", "d", "i", "n",
    "g", " ", "p", "l", "a", "n", ":", " ">>

\* load_daily_plan counting the tasks whatever total_tasks the file holds
load_daily_plan_counting_tasks(plan_file, files) ==
  IF plan_file \notin DOMAIN files
  THEN [content |-> T_LoadErrPrefix \o T_NoFile, files |-> files]
  ELSE LET plan_data == files[plan_file].data
       IN  [content |-> T_LoadedFor \o plan_data.date \o T_With
                          \o IntText(Len(plan_data.tasks)) \o T_Tasks,
            files |-> files]

\* load_daily_plan(plan_file)
load_daily_plan(plan_file, files) ==
  IF plan_file \notin DOMAIN files
  THEN [content |-> T_LoadErrPrefix \o T_NoFile, files |-> files]
  ELSE LET plan_data == files[plan_file].data
           total == IF Truthy(plan_data.total_tasks)
                    THEN CHOOSE n \in plan_data.total_tasks : TRUE
                    ELSE Len(plan_data.tasks)
       IN  [content |-> T_LoadedFor \o plan_data.date \o T_With
                          \o IntText(total) \o T_Tasks,
            files |-> files]

\* ord(c) for the characters of a plan file name
CharCode(c) ==
  CASE c = "-" -> 45 [] c = "." -> 46 [] c = "/" -> 47
    [] c = "0" -> 48 [] c = "1" -> 49 [] c = "2" -> 50 [] c = "3" -> 51
    [] c = "4" -> 52 [] c = "5" -> 53 [] c = "6" -> 54 [] c = "7" -> 55
    [] c = "8" -> 56 [] c = "9" -> 57 [] c = "_" -> 95
    [] c = "a" -> 97 [] c = "j" -> 106 [] c = "l" -> 108 [] c = "n" -> 110
    [] c = "o" -> 111 [] c = "p" -> 112 [] c = "s" -> 115 [] OTHER -> 0

\* a < b for Python strings
RECURSIVE TextLess(_, _)
TextLess(a, b) ==
  IF b = <<>> THEN FALSE
  ELSE IF a = <<>> THEN TRUE
  ELSE IF Head(a) = Head(b) THEN TextLess(Tail(a), Tail(b))
  ELSE CharCode(Head(a)) < CharCode(Head(b))

\* sorted(plan_files, reverse=True): the paths from the greatest down
RECURSIVE sorted_reverse(_)
sorted_reverse(paths) ==
  IF paths = {} THEN <<>>
  ELSE LET top == CHOOSE f \in paths :
                    \A g \in paths : g = f \/ TextLess(g, f)
       IN  <<top>> \o sorted_reverse(paths \ {top})

\* plan_file.name: the path without "plans/"
file_name(path) == SubSeq(path, 7, Len(path))

\* one line of the listing (tools/planning.py:256-265)
plan_line(path, plan_data) ==
  LET tasks_count == IF Truthy(plan_data.total_tasks)
                     THEN CHOOSE n \in plan_data.total_tasks : TRUE
                     ELSE Len(plan_data.tasks)
      created_disp == IF plan_data.created_at = None THEN <<"U", "n", "k",
                                                            "n",
                                                            "o",
                                                            "w",
                                                            "n">>
                      ELSE CHOOSE t \in plan_data.created_at : TRUE
  IN  <<"(cal)", " ">> \o plan_data.date \o <<" ", "-", " ">>
        \o IntText(tasks_count)
        \o <<" ", "t", "a", "s", "k", "s", " ", "(", "C", "r", "e", "a", "t",
             "e", "d", ":", " ">> \o created_disp
        \o <<")", " ", "-", " ", "F", "i", "l", "e", ":", " ">>
        \o file_name(path)

\* "\n".join(plans_info) over the files in the order given
RECURSIVE join_lines(_, _)
join_lines(paths, files) ==
  IF paths = <<>> THEN <<>>
  ELSE plan_line(Head(paths), files[Head(paths)].data)
         \o (IF Tail(paths) = <<>> THEN <<>> ELSE <<"\n">>)
         \o join_lines(Tail(paths), files)

\* list_saved_plans(); plans_dir tells whether the directory plans/ exists
list_saved_plans(files, plans_dir) ==
  IF ~plans_dir THEN [content |-> <<"N", "o", " ", "p", "l", "a", "n", "s",
                                    " ",
                                    "d",
                                    "i",
                                    "r",
                                    "e",
                                    "c",
                                    "t",
                                    "o",
                                    "r",
                                    "y",
                                    " ",
                                    "f",
                                    "o",
                                    "u",
                                    "n",
                                    "d",
                                    ".",
                                    " ",
                                    "C",
                                    "r",
                                    "e",
                                    "a",
                                    "t",
                                    "e",
                                    " ",
                                    "a",
                                    " ",
                                    "p",
                                    "l",
                                    "a",
                                    "n",
                                    " ",
                                    "f",
                                    "i",
                                    "r",
                                    "s",
                                    "t",
                                    "!">>, files |-> files]
  ELSE IF DOMAIN files = {} THEN [content |-> <<"N", "o", " ", "s", "a", "v",
                                                "e",
                                                "d",
                                                " ",
                                                "p",
                                                "l",
                                                "a",
                                                "n",
                                                "s",
                                                " ",
                                                "f",
                                                "o",
                                                "u",
                                                "n",
                                                "d",
                                                ".">>, files |-> files]
  ELSE [content |-> <<"(clip)", " ", "S", "a", "v", "e", "d", " ", "P", "l",
                      "a", "n", "s", ":", "\n">>
                      \o join_lines(sorted_reverse(DOMAIN files), files),
        files |-> files]

\* tools/planning.py:286
T_TaskNotFound(task_id) ==
  <<"(x)", " ", "T", "a", "s", "k", " ", "w", "i", "t", "h", " ", "I", "D",
    " ", "'">> \o <<task_id>> \o <<"'", " ", "n", "o", "t", " ", "f", "o", "u", "n", "d">>

\* tools/planning.py:291
T_TaskUpdated(task_id, new_status) ==
  <<"(ok)", " ", "T", "a", "s", "k", " ", "'">> \o <<task_id>> \o <<"'", " ", "s", "t", "a", "t", "u", "s", " ", "u", "p", "d", "a", "t",
    "e", "d", " ", "t", "o", " ", "'">> \o <<new_status>> \o <<"'">>

\* tools/planning.py:293
T_UpdateErrPrefix == <<"(x)", " ", "E", "r", "r", "o", "r", " ", "u", "p", "d", "a", "t", "i",
    "n", "g", " ", "t", "a", "s", "k", " ", "s", "t", "a", "t", "u", "s",
    ":", " ">>

\* the position of the first task with the id, 0 when there is none
\* (the for ... break ... else of tools/planning.py:281-286)
RECURSIVE first_task_with(_, _, _)
first_task_with(tasks, task_id, i) ==
  IF i > Len(tasks) THEN 0
  ELSE IF tasks[i].id = task_id THEN i
  ELSE first_task_with(tasks, task_id, i + 1)

\* update_task_status setting the status of every task with the id
update_task_status_all(plan_file, task_id, new_status, files) ==
  IF plan_file \notin DOMAIN files
  THEN [content |-> T_UpdateErrPrefix \o T_NoFile, files |-> files]
  ELSE LET plan_data == files[plan_file].data
       IN  IF first_task_with(plan_data.tasks, task_id, 1) = 0
           THEN [content |-> T_TaskNotFound(task_id), files |-> files]
           ELSE [content |-> T_TaskUpdated(task_id, new_status),
                 files |-> rewrite_file(files, plan_file,
                   [plan_data EXCEPT !.tasks =
                      [i \in DOMAIN plan_data.tasks |->
                         IF plan_data.tasks[i].id = task_id
                         THEN [plan_data.tasks[i] EXCEPT !.status = new_status]
                         ELSE plan_data.tasks[i]]])]

\* update_task_status(plan_file, task_id, new_status)
update_task_status(plan_file, task_id, new_status, files) ==
  IF plan_file \notin DOMAIN files
  THEN [content |-> T_UpdateErrPrefix \o T_NoFile, files |-> files]
  ELSE LET plan_data == files[plan_file].data
           first == first_task_with(plan_data.tasks, task_id, 1)
       IN  IF first = 0
           THEN [content |-> T_TaskNotFound(task_id), files |-> files]
           ELSE [content |-> T_TaskUpdated(task_id, new_status),
                 files |-> rewrite_file(files, plan_file,
                   [plan_data EXCEPT !.tasks[first].status = new_status])]

\* what structured_llm.invoke can do in create_daily_plan: raise, report no
\* success, answer with a message only, answer with a plan
StructuredOutcomes ==
  {[kind |-> "raise", success |-> FALSE, daily_plan |-> NoPlan],
   [kind |-> "response", success |-> FALSE, daily_plan |-> NoPlan],
   [kind |-> "response", success |-> TRUE, daily_plan |-> NoPlan],
   [kind |-> "response", success |-> TRUE, daily_plan |-> GoodPlan],
   [kind |-> "response", success |-> TRUE, daily_plan |-> SlashPlan]}

\* response.message of the structured answer
T_Message == <<"T", "e", "l", "l", " ", "m", "e", " ", "m", "o", "r", "e">>

\* tools/planning.py:179
T_CreatedSavedAs == <<"(ok)", " ", "D", "a", "i", "l", "y", " ", "p", "l", "a", "n", " ", "c",
    "r", "e", "a", "t", "e", "d", " ", "s", "u", "c", "c", "e", "s", "s",
    "f", "u", "l", "l", "y", "!", "\n", "\n", "P", "l", "a", "n", " ", "s",
    "a", "v", "e", "d", " ", "a", "s", ":", " ">>

\* uuid.uuid4().hex[:6]: a value no earlier call drew, numbered here by the
\* writes the plans directory has seen
uuid4_hex(files) ==
  LET n == MaxMtime(files) + 1
  IN  "a1b2" \o DigitChar((n \div 10) % 10) \o DigitChar(n % 10)

\* f"plan_{datetime.now().strftime('%Y%m%d_%H%M%S')}_{uuid.uuid4().hex[:6]}"
generated_plan_id(now, files) ==
  "plan_20250101_00000" \o DigitChar(now % 10) \o "_" \o uuid4_hex(files)

\* datetime.now().isoformat(), to the second
iso_time(now) == D_Good \o <<"T", "0", "0", ":", "0", "0", ":">> \o
                 SubSeq(HHMMSS(now), 5, 6)

\* the plan create_daily_plan hands to save_daily_plan: stamped, totals
\* computed when missing (tools/planning.py:147-169)
finalized_plan(daily_plan, now, files) ==
  [daily_plan EXCEPT
     !.plan_id = generated_plan_id(now, files),
     !.created_at = Some(iso_time(now)),
     !.current_time = Some(<<"0", "0", ":", "0", "0">>),
     !.total_tasks =
        IF Truthy(daily_plan.total_tasks) THEN daily_plan.total_tasks
        ELSE Some(Len(daily_plan.tasks)),
     !.estimated_total_duration =
        IF Truthy(daily_plan.estimated_total_duration)
        THEN daily_plan.estimated_total_duration
        ELSE Some(SumDurations(daily_plan.tasks))]

\* create_daily_plan(user_input) for an outcome of the structured LLM call
create_daily_plan(response, now, files) ==
  IF response.kind = "raise"
  THEN [content |-> <<"(x)", " ", "E", "r", "r", "o", "r", " ", "c", "r",
                      "e", "a", "t", "i", "n", "g", " ",
                      "d", "a", "i", "l", "y", " ", "p",
                      "l", "a", "n", ":", " ">> \o T_Exc, files |-> files,
        called_save |-> FALSE]
  ELSE IF ~response.success
  THEN [content |-> <<"(x)", " ", "F", "a", "i", "l", "e", "d", " ", "t",
                      "o", " ", "c", "r", "e", "a", "t",
                      "e", " ", "p", "l", "a", "n", ":",
                      " ">> \o T_Message, files |-> files,
        called_save |-> FALSE]
  ELSE IF response.daily_plan = NoPlan
  THEN [content |-> <<"(ok)", " ">> \o T_Message, files |-> files,
        called_save |-> FALSE]
  ELSE LET plan_json ==
             save_daily_plan(finalized_plan(response.daily_plan, now, files),
                             now, files)
       IN  [content |-> T_CreatedSavedAs \o plan_json.content,
            files |-> plan_json.files, called_save |-> TRUE]

\* ToolNode: run every call of the batch in order; one ToolMessage per call,
\* named after the tool
RECURSIVE run_tools(_, _, _, _)
run_tools(calls, now, files, env) ==
  IF calls = <<>> THEN [msgs |-> <<>>, files |-> files, wrote |-> FALSE]
  ELSE LET c == Head(calls)
           r == IF c.name = "save_daily_plan"
                THEN save_daily_plan(c.args.plan, now, files)
                ELSE IF c.name = "create_daily_plan"
                THEN LET created ==
                           create_daily_plan(c.structured, now, files)
                     IN  [content |-> created.content,
                          files |-> created.files,
                          wrote |-> created.files # files]
                ELSE [content |-> search_web(env), files |-> files,
                      wrote |-> FALSE]
           rest == run_tools(Tail(calls), now, r.files, env)
       IN  [msgs |-> <<ToolMessage(r.content, c.name)>> \o rest.msgs,
            files |-> rest.files,
            wrote |-> IF Tail(calls) = <<>> THEN r.wrote ELSE rest.wrote]

\* a request of the LLM for create_daily_plan; structured is the answer
\* structured_llm gives when the tool runs
CreateCall(structured) ==
  [name |-> "create_daily_plan", args |-> [user_input |-> "u"],
   structured |-> structured]

\* the structured answers of the batches below: a plan, and no success
StructuredPlan ==
  [kind |-> "response", success |-> TRUE, daily_plan |-> GoodPlan]

StructuredFailure ==
  [kind |-> "response", success |-> FALSE, daily_plan |-> NoPlan]

\* batches with create_daily_plan: alone, and before a save the LLM requests
\* in the same response
CreateBatches ==
  {<<CreateCall(StructuredPlan)>>, <<CreateCall(StructuredFailure)>>,
   <<SaveCall(GoodPlan)>>,
   <<CreateCall(StructuredPlan), SaveCall(GoodPlan)>>}

CreateOutcomes ==
  {[kind |-> "text", calls |-> <<>>], [kind |-> "raise", calls |-> <<>>]}
    \cup {[kind |-> "tools", calls |-> b] : b \in CreateBatches}

\* get_plan_status()
get_plan_status(files) ==
  LET latest == get_latest_plan(files)
  IN  [content |-> IF latest.plan = NoPlan THEN <<"(clip)", " ", "N", "o",
                                                  " ",
                                                  "a",
                                                  "c",
                                                  "t",
                                                  "i",
                                                  "v",
                                                  "e",
                                                  " ",
                                                  "p",
                                                  "l",
                                                  "a",
                                                  "n",
                                                  "s",
                                                  " ",
                                                  "f",
                                                  "o",
                                                  "u",
                                                  "n",
                                                  "d",
                                                  ".",
                                                  " ",
                                                  "C",
                                                  "r",
                                                  "e",
                                                  "a",
                                                  "t",
                                                  "e",
                                                  " ",
                                                  "y",
                                                  "o",
                                                  "u",
                                                  "r",
                                                  " ",
                                                  "f",
                                                  "i",
                                                  "r",
                                                  "s",
                                                  "t",
                                                  " ",
                                                  "p",
                                                  "l",
                                                  "a",
                                                  "n",
                                                  "!">>
                   ELSE create_plan_summary(latest.plan),
       files |-> latest.files]

\* tool.name of the tools of AGENT_TOOLS (tools/planning.py:296-304)
AGENT_TOOLS ==
  <<"search_web", "get_current_time_info", "create_daily_plan",
    "save_daily_plan", "load_daily_plan", "list_saved_plans",
    "update_task_status">>

\* list_available_tools(): one line per tool, the name standing for the line
list_available_tools(files) ==
  [content |-> <<"(tools)", " ", "A", "v", "a", "i", "l", "a", "b", "l", "e",
                 " ", "T", "o", "o", "l", "s", ":", "\n",
                 "\n">> \o AGENT_TOOLS, files |-> files]

\* ---------------------------------------------------------------------
\* The chat front end: texts and pure steps  (streamlit_chat.py)
\* ---------------------------------------------------------------------

\* most prompts submitted in a session
MaxPrompts == 2

\* streamlit_chat.py:155
T_TakingLong ==
  <<"(clock)", " ", "I", "'", "m", " ", "t", "a", "k", "i", "n", "g", " ",
    "l", "o", "n", "g", "e", "r", " ", "t", "h", "a", "n", " ", "e", "x",
    "p", "e", "c", "t", "e", "d", " ", "t", "o", " ", "r", "e", "s", "p",
    "o", "n", "d", ".", " ", "T", "h", "i", "s", " ", "m", "i", "g", "h",
    "t", " ", "b", "e", " ", "d", "u", "e", " ", "t", "o", " ", "a", " ",
    "c", "o", "m", "p", "l", "e", "x", " ", "p", "l", "a", "n", "n", "i",
    "n", "g", " ", "r", "e", "q", "u", "e", "s", "t", ".", " ", "P", "l",
    "e", "a", "s", "e", " ", "t", "r", "y", " ", "s", "i", "m", "p", "l",
    "i", "f", "y", "i", "n", "g", " ", "y", "o", "u", "r", " ", "m", "e",
    "s", "s", "a", "g", "e", " ", "o", "r", " ", "t", "r", "y", " ", "a",
    "g", "a", "i", "n", ".">>

\* streamlit_chat.py:162
T_Trouble ==
  <<"I", "'", "m", " ", "h", "a", "v", "i", "n", "g", " ", "t", "r", "o",
    "u", "b", "l", "e", " ", "p", "r", "o", "c", "e", "s", "s", "i", "n",
    "g", " ", "y", "o", "u", "r", " ", "r", "e", "q", "u", "e", "s", "t",
    " ", "r", "i", "g", "h", "t", " ", "n", "o", "w", ".", " ", "P", "l",
    "e", "a", "s", "e", " ", "t", "r", "y", " ", "a", "g", "a", "i", "n",
    ".">>

\* the prompts the quick-action buttons stand for
QuickActions == {<<"S", "h", "o", "w", " ", "m", "e", " ", "m", "y", " ",
                   "c", "u", "r", "r", "e", "n", "t", " ",
                   "p", "l", "a", "n", " ", "s", "u", "m",
                   "m", "a", "r", "y">>, <<"H", "e", "l", "p", " ", "m", "e", " ",
                                  "c", "r",
                                  "e", "a",
                                  "t", "e",
                                  " ", "a",
                                  " ", "n",
                                  "e", "w",
                                  " ", "d",
                                  "a", "i",
                                  "l", "y",
                                  " ", "p",
                                  "l", "a",
                                  "n">>}

\* the handler answering with the result whether or not the thread is alive
response_content_ignoring_deadline(alive, result) ==
  IF result.error THEN result.response
  ELSE IF result.completed THEN result.response
  ELSE IF alive THEN T_Empty ELSE T_Trouble

\* response_content after the wait (streamlit_chat.py:153-162)
response_content(alive, result) ==
  IF alive THEN T_TakingLong
  ELSE IF result.error THEN result.response
  ELSE IF result.completed THEN result.response
  ELSE T_Trouble

\* the text planning_agent.chat returns in thread w: the answers of the LLM
\* differ from call to call
worker_answer(w) == T_Answer \o <<" ">> \o IntText(w)

\* with open(plan_file, "r"): plan_data = json.load(f)
read_plan_file(plan_file, files) == files[plan_file].data

\* the second half of update_task_status reading the file again
write_back_rereading(plan_data, plan_file, task_id, new_status, files) ==
  update_task_status(plan_file, task_id, new_status, files)

\* the second half of update_task_status (tools/planning.py:281-291), run
\* on the plan_data loaded earlier: the file is rewritten with plan_data and
\* the one status changed, whatever the file holds by now
write_back(plan_data, plan_file, task_id, new_status, files) ==
  LET first == first_task_with(plan_data.tasks, task_id, 1)
  IN  IF first = 0
      THEN [content |-> T_TaskNotFound(task_id), files |-> files]
      ELSE [content |-> T_TaskUpdated(task_id, new_status),
            files |-> rewrite_file(files, plan_file,
              [plan_data EXCEPT !.tasks[first].status = new_status])]

\* ---------------------------------------------------------------------
\* State
\* ---------------------------------------------------------------------

VARIABLES
  phase,      \* "idle", "running", "returned" or "raised": the chat() call
  node,       \* the node the graph runs next: "agent", "tools", "__end__"
  messages,   \* the messages channel of the graph state
  mode,       \* the mode channel of the graph state
  trace,      \* the nodes run so far in this turn, in order
  modes,      \* the mode selected by each agent step of the turn, in order
  base,       \* number of messages when the loop started
  llmFailed,  \* the LLM invocation of this turn raised
  lastWrote,  \* the last tool call of the last batch wrote a plan file
  files,      \* the plans/ directory: path -> stored plan
  clock,      \* wall clock, seconds
  searchEnv,  \* "unavailable", "ok" or "failing": the search collaborator
  returned,   \* the text chat() returned
  sent,       \* the message list the last agent step handed to the LLM
  plansDir,   \* the directory plans/ exists
  toolCall,   \* the last direct call of a tool or entry point, its result
  clsInput,   \* classifier run: the message handed to the classifier
  clsDone,    \* classifier run: the classifier has returned
  clsResult,  \* classifier run: the boolean it returned
  caller,     \* the list object the caller passed to chat(): the value it
              \* was given with and the value it holds after the call
  session,    \* front end: st.session_state.messages
  workers,    \* front end: the background threads started so far
  waiting     \* front end: the thread the chat handler waits for, 0 if none

vars == <<phase, node, messages, mode, trace, modes, base, llmFailed,
          lastWrote, files, clock, searchEnv, returned, sent, plansDir,
          toolCall, clsInput, clsDone, clsResult, caller, session, workers,
          waiting>>

loopVars == <<phase, node, messages, mode, trace, modes, base, llmFailed,
              lastWrote, files, clock, searchEnv, returned, sent, plansDir,
              toolCall, caller>>

turnVars == <<phase, node, messages, mode, trace, modes, base, llmFailed,
              lastWrote, returned, sent, caller>>

frontVars == <<session, workers, waiting>>

clsVars == <<clsInput, clsDone, clsResult>>

\* the history a caller holds from earlier turns: user and assistant
\* messages in turn
PriorMessage(i) ==
  IF i % 2 = 1 THEN HumanMessage(T_Hello) ELSE AIMessage(T_Answer, <<>>)

Histories == {[i \in 1..n |-> PriorMessage(i)] : n \in 0..MaxHistory}

UserTexts == {T_Hello, T_Sched}

LoopIdle ==
  /\ phase = "idle"
  /\ node = "agent"
  /\ messages = <<>>
  /\ mode = "chat"
  /\ trace = <<>>
  /\ modes = <<>>
  /\ base = 0
  /\ llmFailed = FALSE
  /\ lastWrote = FALSE
  /\ clock = 0
  /\ returned = <<>>
  /\ sent = <<>>
  /\ toolCall = [tool |-> "none"]
  /\ caller = [given |-> <<>>, after |-> <<>>]

ClsIdle == clsInput = NoMessage /\ clsDone = FALSE /\ clsResult = FALSE

\* no front-end session: the agent is called directly
FrontIdle == session = <<>> /\ workers = <<>> /\ waiting = 0

Init ==
  /\ LoopIdle
  /\ files = <<>>
  /\ plansDir = FALSE
  /\ searchEnv \in {"unavailable", "ok", "failing"}
  /\ ClsIdle
  /\ FrontIdle

\* ---------------------------------------------------------------------
\* Actions of one chat() turn
\* ---------------------------------------------------------------------

\* a plain role/content record, as a caller outside the agent supplies it
Record(role, content) == [role |-> role, content |-> content]

\* isinstance(m, dict)
is_dict(m) == "role" \in DOMAIN m

\* the loop over the records of a history whose first element is a dict:
\* role "human" and role "assistant" are converted, a record with any other
\* role is appended nowhere
RECURSIVE coerced(_)
coerced(records) ==
  IF records = <<>> THEN <<>>
  ELSE LET m == Head(records)
           rest == coerced(Tail(records))
       IN  IF m.role = "human" THEN <<HumanMessage(m.content)>> \o rest
           ELSE IF m.role = "assistant"
                THEN <<AIMessage(m.content, <<>>)>> \o rest
                ELSE rest

\* messages = conversation_history or [], then the coercion when the first
\* element is a dict
coerce(conversation_history) ==
  IF conversation_history # <<>> /\ is_dict(conversation_history[1])
  THEN coerced(conversation_history)
  ELSE conversation_history

\* the caller's list object after chat() appended the new user message:
\* "conversation_history or []" is the caller's own list when that list is
\* not empty, and messages.append() then appends to it, unless the coercion
\* replaced messages by a new list first
history_after_chat(conversation_history, message) ==
  IF conversation_history = <<>> THEN conversation_history
  ELSE IF is_dict(conversation_history[1]) THEN conversation_history
  ELSE Append(conversation_history, HumanMessage(message))

\* a caller invokes chat(message, conversation_history); the CLI (demo.py)
\* adds the keyword thread_id, which chat() does not accept: Python raises
\* TypeError before the body runs
chat(message, conversation_history, with_thread_id) ==
  /\ phase = "idle"
  /\ IF with_thread_id
     THEN /\ phase' = "raised"
          /\ caller' = [given |-> conversation_history,
                        after |-> conversation_history]
          /\ UNCHANGED <<node, messages, mode, base, files>>
     ELSE /\ phase' = "running"
          /\ messages' = Append(coerce(conversation_history),
                                HumanMessage(message))
          /\ base' = Len(messages')
          /\ caller' = [given |-> conversation_history,
                        after |-> history_after_chat(conversation_history,
                                                     message)]
          /\ mode' = "chat"
          /\ node' = "agent"
          /\ files' = get_latest_plan(files).files
  /\ UNCHANGED <<trace, modes, llmFailed, lastWrote, clock, searchEnv,
                 returned, sent, plansDir, toolCall, clsVars, frontVars>>

\* one run of the agent node and of its conditional edge.  The node returns
\* {"messages": [response]} only: the mode it selected is not part of the
\* update, so the mode channel keeps its value
agent_node(outcome) ==
  /\ phase = "running"
  /\ node = "agent"
  /\ Len(trace) < RecursionLimit
  /\ messages' = Append(messages, agent_response(outcome))
  /\ node' = tools_condition(messages')
  /\ trace' = Append(trace, "agent")
  /\ clsInput' = latest_message(messages)
  /\ \E selected \in {select_mode(messages, mode)} :
       /\ modes' = Append(modes, selected)
       /\ \E full \in {full_messages(messages, selected, files)} :
            sent' = full.msgs /\ files' = full.files
  /\ llmFailed' = (llmFailed \/ outcome.kind = "raise")
  /\ UNCHANGED <<phase, mode, base, lastWrote, clock, searchEnv, returned,
                 plansDir, toolCall, caller, clsDone, clsResult, frontVars>>

\* one run of the tools node and of its conditional edge
tool_node(now) ==
  /\ phase = "running"
  /\ node = "tools"
  /\ Len(trace) < RecursionLimit
  /\ LET r == run_tools(messages[Len(messages)].tool_calls, now, files,
                        searchEnv)
     IN  /\ messages' = messages \o r.msgs
         /\ files' = r.files
         /\ lastWrote' = r.wrote
  /\ plansDir' = (plansDir \/ \E i \in DOMAIN messages[Len(messages)].tool_calls :
                    messages[Len(messages)].tool_calls[i].name
                      = "save_daily_plan")
  /\ clock' = now
  /\ node' = tools_edge(messages')
  /\ trace' = Append(trace, "tools")
  /\ UNCHANGED <<phase, mode, modes, base, llmFailed, searchEnv, returned,
                 sent, toolCall, caller, clsVars, frontVars>>

\* graph.invoke raises GraphRecursionError when the step ceiling is reached
\* before END; chat() catches it and returns the error text
recursion_error ==
  /\ phase = "running"
  /\ node # "__end__"
  /\ Len(trace) >= RecursionLimit
  /\ returned' = chat_error_text(<<"R", "e", "c", "u", "r", "s", "i", "o",
                                   "n", " ",
                                   "l", "i",
                                   "m", "i",
                                   "t", " ",
                                   "o", "f",
                                   " ", "1",
                                   "0", " ",
                                   "r", "e",
                                   "a", "c",
                                   "h", "e",
                                   "d">>)
  /\ phase' = "returned"
  /\ UNCHANGED <<node, messages, mode, trace, modes, base, llmFailed,
                 lastWrote, files, clock, searchEnv, sent, plansDir,
                 toolCall, caller, clsVars, frontVars>>

\* graph.invoke returns at END and chat() returns the final text
chat_return ==
  /\ phase = "running"
  /\ node = "__end__"
  /\ returned' = final_text(messages)
  /\ phase' = "returned"
  /\ UNCHANGED <<node, messages, mode, trace, modes, base, llmFailed,
                 lastWrote, files, clock, searchEnv, sent, plansDir,
                 toolCall, caller, clsVars, frontVars>>

Next ==
  \/ \E m \in UserTexts, h \in Histories, k \in BOOLEAN : chat(m, h, k)
  \/ \E o \in LLMOutcomes : agent_node(o)
  \/ \E now \in clock..(IF clock < MaxClock THEN clock + 1 ELSE clock) :
       tool_node(now)
  \/ recursion_error
  \/ chat_return

Spec == Init /\ [][Next]_vars

\* ---------------------------------------------------------------------
\* Turns started with a history of plain role/content records
\* ---------------------------------------------------------------------

\* histories of plain records: the user's and the assistant's in turn
RecordOf(i, user_role) ==
  IF i % 2 = 1 THEN Record(user_role, T_Hello)
  ELSE Record("assistant", T_Answer)

RecordHistories ==
  {[i \in 1..n |-> RecordOf(i, u)] : n \in 1..MaxHistory, u \in {"human", "user"}}

InitHist ==
  /\ LoopIdle
  /\ files = <<>>
  /\ plansDir = FALSE
  /\ searchEnv = "ok"
  /\ ClsIdle
  /\ FrontIdle

NextHist ==
  \/ \E m \in UserTexts, h \in Histories \cup RecordHistories :
       chat(m, h, FALSE)
  \/ \E o \in LLMOutcomes : agent_node(o)
  \/ \E now \in clock..(IF clock < MaxClock THEN clock + 1 ELSE clock) :
       tool_node(now)
  \/ recursion_error
  \/ chat_return

SpecHist == InitHist /\ [][NextHist]_vars

\* ---------------------------------------------------------------------
\* Turns in which the LLM requests create_daily_plan
\* ---------------------------------------------------------------------

NextCreate ==
  \/ \E m \in UserTexts : chat(m, <<>>, FALSE)
  \/ \E o \in CreateOutcomes : agent_node(o)
  \/ \E now \in clock..(IF clock < MaxClock THEN clock + 1 ELSE clock) :
       tool_node(now)
  \/ recursion_error
  \/ chat_return

SpecCreate == InitHist /\ [][NextCreate]_vars

\* ---------------------------------------------------------------------
\* Turns started over a plans directory left by earlier runs
\* ---------------------------------------------------------------------

\* plans directories earlier runs can leave: none, the sample plan alone, a
\* plan and then the sample plan
InitialStores ==
  LET sampleOnly == save_daily_plan(SmokePlan, 1, <<>>).files
      planThenSample ==
        save_daily_plan(SmokePlan, 1,
                        save_daily_plan(GoodPlan, 0, <<>>).files).files
  IN  {<<>>, sampleOnly, planThenSample}

InitCtx ==
  /\ LoopIdle
  /\ files \in InitialStores
  /\ plansDir = (files # <<>>)
  /\ searchEnv = "unavailable"
  /\ ClsIdle
  /\ FrontIdle

SpecCtx == InitCtx /\ [][Next]_vars

\* ---------------------------------------------------------------------
\* The tools and the read-only entry points called one at a time
\* ---------------------------------------------------------------------

\* most files written in a run of the tools
MaxWrites == 2

\* the plans handed to save_daily_plan
StorePlans == {GoodPlan, SlashPlan, SmokePlan, NextDayPlan}

\* the task ids and the status values handed to update_task_status; the
\* tool takes any string as a status
TaskIds == {"t1", "t2", "missing"}

NewStatuses == {"completed", "done"}

OlderStore ==
  LET stored ==
        create_daily_plan([kind |-> "response", success |-> TRUE,
                           daily_plan |-> GoodPlan], 9, <<>>).files
  IN  [f \in DOMAIN stored |-> [stored[f] EXCEPT !.mtime = 0, !.saved = 0]]

InitStore ==
  /\ LoopIdle
  /\ files = <<>>
  /\ plansDir = FALSE
  /\ searchEnv \in {"unavailable", "ok", "failing"}
  /\ ClsIdle
  /\ FrontIdle

\* the clock readings a call can see
Nows == clock..(IF clock < MaxClock THEN clock + 1 ELSE clock)

call_save_daily_plan(plan, now) ==
  /\ MaxMtime(files) < MaxWrites
  /\ LET r == save_daily_plan(plan, now, files)
     IN  /\ files' = r.files
         /\ toolCall' = [tool |-> "save_daily_plan", args |-> [plan |-> plan],
                         content |-> r.content]
  /\ plansDir' = TRUE
  /\ clock' = now
  /\ UNCHANGED <<turnVars, searchEnv, clsVars, frontVars>>

call_create_daily_plan(response, now) ==
  /\ MaxMtime(files) < MaxWrites
  /\ LET r == create_daily_plan(response, now, files)
     IN  /\ files' = r.files
         /\ plansDir' = (plansDir \/ r.called_save)
         /\ toolCall' = [tool |-> "create_daily_plan",
                         args |-> [response |-> response],
                         content |-> r.content]
  /\ clock' = now
  /\ UNCHANGED <<turnVars, searchEnv, clsVars, frontVars>>

call_load_daily_plan(plan_file) ==
  /\ LET r == load_daily_plan(plan_file, files)
     IN  /\ files' = r.files
         /\ toolCall' = [tool |-> "load_daily_plan",
                         args |-> [plan_file |-> plan_file],
                         content |-> r.content]
  /\ UNCHANGED <<turnVars, plansDir, clock, searchEnv, clsVars, frontVars>>

call_list_saved_plans ==
  /\ LET r == list_saved_plans(files, plansDir)
     IN  /\ files' = r.files
         /\ toolCall' = [tool |-> "list_saved_plans", args |-> <<>>,
                         content |-> r.content]
  /\ UNCHANGED <<turnVars, plansDir, clock, searchEnv, clsVars, frontVars>>

call_update_task_status(plan_file, task_id, new_status) ==
  /\ MaxMtime(files) < MaxWrites
  /\ LET r == update_task_status(plan_file, task_id, new_status, files)
     IN  /\ files' = r.files
         /\ toolCall' = [tool |-> "update_task_status",
                         args |-> [plan_file |-> plan_file,
                                   task_id |-> task_id,
                                   new_status |-> new_status],
                         content |-> r.content]
  /\ UNCHANGED <<turnVars, plansDir, clock, searchEnv, clsVars, frontVars>>

call_search_web ==
  /\ toolCall' = [tool |-> "search_web", args |-> [query |-> "q"],
                  content |-> search_web(searchEnv)]
  /\ UNCHANGED <<turnVars, files, plansDir, clock, searchEnv, clsVars, frontVars>>

\* _get_context_message(state) for a state in the given mode
call_get_context_message(state_mode) ==
  /\ LET r == get_context_message(state_mode, files)
     IN  /\ files' = r.files
         /\ toolCall' = [tool |-> "_get_context_message",
                         args |-> [mode |-> state_mode],
                         content |-> IF r.msgs = <<>> THEN <<>>
                                     ELSE r.msgs[1].content]
  /\ UNCHANGED <<turnVars, plansDir, clock, searchEnv, clsVars, frontVars>>

call_get_plan_status ==
  /\ LET r == get_plan_status(files)
     IN  /\ files' = r.files
         /\ toolCall' = [tool |-> "get_plan_status", args |-> <<>>,
                         content |-> r.content]
  /\ UNCHANGED <<turnVars, plansDir, clock, searchEnv, clsVars, frontVars>>

call_list_available_tools ==
  /\ LET r == list_available_tools(files)
     IN  /\ files' = r.files
         /\ toolCall' = [tool |-> "list_available_tools", args |-> <<>>,
                         content |-> r.content]
  /\ UNCHANGED <<turnVars, plansDir, clock, searchEnv, clsVars, frontVars>>

NextStore ==
  \/ \E plan \in StorePlans, now \in Nows : call_save_daily_plan(plan, now)
  \/ \E response \in StructuredOutcomes, now \in Nows :
       call_create_daily_plan(response, now)
  \/ \E plan_file \in DOMAIN files \cup {MissingPath} :
       call_load_daily_plan(plan_file)
  \/ call_list_saved_plans
  \/ \E plan_file \in DOMAIN files \cup {MissingPath}, task_id \in TaskIds,
        new_status \in NewStatuses :
       call_update_task_status(plan_file, task_id, new_status)
  \/ call_search_web
  \/ \E state_mode \in {"chat", "planning"} :
       call_get_context_message(state_mode)
  \/ call_get_plan_status
  \/ call_list_available_tools

SpecStore == InitStore /\ [][NextStore]_vars

\* the writing tools and the latest-plan lookups called over a plans
\* directory that holds an older plan
InitOlder ==
  /\ LoopIdle
  /\ files = OlderStore
  /\ plansDir = TRUE
  /\ searchEnv = "unavailable"
  /\ ClsIdle
  /\ FrontIdle

NextOlder ==
  \/ \E plan \in StorePlans, now \in Nows : call_save_daily_plan(plan, now)
  \/ \E plan_file \in DOMAIN files, task_id \in TaskIds,
        new_status \in NewStatuses :
       call_update_task_status(plan_file, task_id, new_status)
  \/ call_get_context_message("planning")
  \/ call_get_plan_status

SpecOlder == InitOlder /\ [][NextOlder]_vars

\* ---------------------------------------------------------------------
\* The chat front end  (streamlit_chat.py)
\* ---------------------------------------------------------------------

\* the session of a browser tab before the first prompt
InitFront ==
  /\ LoopIdle
  /\ files = OlderStore
  /\ plansDir = TRUE
  /\ searchEnv = "unavailable"
  /\ ClsIdle
  /\ session = <<SystemMessage(T_ChatPrompt)>>
  /\ workers = <<>>
  /\ waiting = 0

\* the chat input handler up to thread.start() (streamlit_chat.py:109-145)
submit(prompt) ==
  /\ waiting = 0
  /\ Len(workers) < MaxPrompts
  /\ session' = Append(session, HumanMessage(prompt))
  /\ workers' = Append(workers,
       [prompt |-> prompt,
        conversation_history |-> SubSeq(session', 2, Len(session') - 1),
        thread |-> "alive", result |-> ([response |-> T_Empty, error |-> FALSE, completed |-> FALSE]), orphaned |-> FALSE,
        pc |-> "chat", target |-> <<>>, plan_data |-> <<>>,
        updated |-> {}])
  /\ waiting' = Len(workers')
  /\ UNCHANGED <<loopVars, clsVars>>

\* a quick-action button of the sidebar, shown when a plan is stored: its
\* prompt is appended to the session and the script reruns
\* (streamlit_chat.py:44, 62-67, 84-95)
quick_action(text) ==
  /\ waiting = 0
  /\ Len(session) < MaxPrompts
  /\ get_latest_plan(files).plan # NoPlan
  /\ session' = Append(session, HumanMessage(text))
  /\ UNCHANGED <<workers, waiting, loopVars, clsVars>>

\* the "Clear Chat History" button (streamlit_chat.py:75-77)
clear_history ==
  /\ waiting = 0
  /\ Len(session) > 1
  /\ session' = <<SystemMessage(T_ChatPrompt)>>
  /\ UNCHANGED <<workers, waiting, loopVars, clsVars>>

\* the wait ends with the thread still alive: the deadline has passed
\* (streamlit_chat.py:148-155, 165-168)
handler_timeout ==
  /\ waiting # 0
  /\ workers[waiting].thread = "alive"
  /\ session' = Append(session,
       AIMessage(response_content(TRUE, workers[waiting].result), <<>>))
  /\ workers' = [workers EXCEPT ![waiting].orphaned = TRUE]
  /\ waiting' = 0
  /\ UNCHANGED <<loopVars, clsVars>>

\* the wait ends because the thread has finished (streamlit_chat.py:150,
\* 156-168)
handler_collect ==
  /\ waiting # 0
  /\ workers[waiting].thread = "finished"
  /\ session' = Append(session,
       AIMessage(response_content(FALSE, workers[waiting].result), <<>>))
  /\ waiting' = 0
  /\ UNCHANGED <<workers, loopVars, clsVars>>

\* thread w, inside planning_agent.chat, runs the first half of an
\* update_task_status call the LLM requested
worker_read(w, plan_file, task_id, new_status) ==
  /\ workers[w].thread = "alive"
  /\ workers[w].pc = "chat"
  /\ MaxMtime(files) < MaxWrites
  /\ workers' = [workers EXCEPT
       ![w].pc = "loaded",
       ![w].target = [plan_file |-> plan_file, task_id |-> task_id,
                      new_status |-> new_status],
       ![w].plan_data = read_plan_file(plan_file, files)]
  /\ UNCHANGED <<session, waiting, loopVars, clsVars>>

\* thread w runs the second half of the call
worker_write(w) ==
  /\ workers[w].thread = "alive"
  /\ workers[w].pc = "loaded"
  /\ LET t == workers[w].target
         r == write_back(workers[w].plan_data, t.plan_file, t.task_id,
                         t.new_status, files)
     IN  /\ files' = r.files
         /\ workers' = [workers EXCEPT
              ![w].pc = "chat", ![w].target = <<>>, ![w].plan_data = <<>>,
              ![w].updated =
                 IF r.content = T_TaskUpdated(t.task_id, t.new_status)
                 THEN @ \cup {t} ELSE @]
  /\ UNCHANGED <<session, waiting, turnVars, clock, searchEnv, plansDir,
                 toolCall, clsVars>>

\* planning_agent.chat returns in thread w and agent_call stores the result
\* (streamlit_chat.py:133-136)
worker_finish(w) ==
  /\ workers[w].thread = "alive"
  /\ workers[w].pc = "chat"
  /\ workers' = [workers EXCEPT
       ![w].thread = "finished",
       ![w].result = [response |-> worker_answer(w), error |-> FALSE,
                      completed |-> TRUE]]
  /\ UNCHANGED <<session, waiting, loopVars, clsVars>>

\* the session as the user drives it: prompts, sidebar buttons, and the
\* threads running to their end
NextFront ==
  \/ submit(T_Hello)
  \/ \E text \in QuickActions : quick_action(text)
  \/ clear_history
  \/ handler_timeout
  \/ handler_collect
  \/ \E w \in DOMAIN workers : worker_finish(w)

SpecFront == InitFront /\ [][NextFront]_vars

\* the threads of successive prompts updating the tasks of the stored plan
NextWriters ==
  \/ submit(T_Hello)
  \/ handler_timeout
  \/ handler_collect
  \/ \E w \in DOMAIN workers, plan_file \in DOMAIN files,
        task_id \in {"t1", "t2"} :
       worker_read(w, plan_file, task_id, "completed")
  \/ \E w \in DOMAIN workers : worker_write(w)
  \/ \E w \in DOMAIN workers : worker_finish(w)

SpecWriters == InitFront /\ [][NextWriters]_vars

\* ---------------------------------------------------------------------
\* The intent classifier run on its own
\* ---------------------------------------------------------------------

\* most pieces a classified text is put together from
MaxAtoms == 3

\* the pieces: phrases of each list, filler words, a space, a clock time
TextAtoms ==
  { <<"S", "c", "h", "e", "d", "u", "l", "e", " ", "m", "y", " ">>,
    <<"p", "l", "a", "n", " ", "m", "y", " ", "d", "a", "y", " ">>,
    <<"l", "u", "n", "c", "h">>,
    <<"a", "m">>,
    <<" ">>,
    <<"c", "a", "n", " ", "y", "o", "u", " ", "h", "e", "l", "p", " ">>,
    <<"a", " ", "b", " ", "c", " ", "d", " ">>,
    <<"1", "0", ":", "3", "0">>,
    <<"1", "0", ":", "1", "5">> }

\* a question about planning the day that names no activity
T_HelpPlanDay == <<"C", "a", "n", " ", "y", "o", "u", " ", "h", "e", "l", "p", " ", "m", "e", " ", "p", "l", "a", "n", " ", "m", "y", " ", "d", "a", "y", "?">>

RECURSIVE TextsUpTo(_)
TextsUpTo(n) ==
  IF n = 0 THEN {<<>>}
  ELSE LET shorter == TextsUpTo(n - 1)
       IN  shorter \cup {t \o a : t \in shorter, a \in TextAtoms}

ClassifierInputs ==
  {NoMessage, HumanMessage(T_HelpPlanDay)}
    \cup {HumanMessage(t) : t \in TextsUpTo(MaxAtoms)}

InitCls ==
  /\ LoopIdle
  /\ files = <<>>
  /\ plansDir = FALSE
  /\ searchEnv = "unavailable"
  /\ clsInput \in ClassifierInputs
  /\ clsDone = FALSE
  /\ clsResult = FALSE
  /\ FrontIdle

\* one call of _is_planning_request(message)
classify ==
  /\ ~clsDone
  /\ clsDone' = TRUE
  /\ clsResult' = is_planning_request(clsInput)
  /\ UNCHANGED <<clsInput, loopVars, frontVars>>

NextCls == classify

SpecCls == InitCls /\ [][NextCls]_vars

\* ---------------------------------------------------------------------
\* Properties of the orchestration loop
\* ---------------------------------------------------------------------

LastMessage == messages[Len(messages)]

LastNode == IF trace = <<>> THEN "none" ELSE trace[Len(trace)]

LLMInvocations == Cardinality({i \in DOMAIN trace : trace[i] = "agent"})

ToolBatchesRun == Cardinality({i \in DOMAIN trace : trace[i] = "tools"})

BeginsWithFailMark(text) == text # <<>> /\ text[1] = "(x)"

\* C1: a step of the TOOLS state executes every tool call of the batch the
\* last LLM response requested (one result message per call, in order), and
\* the next state is END exactly when the last result message is attributed
\* to save_daily_plan and does not begin with the failure marker; otherwise
\* the next state is AGENT.
C1_ToolsTransition ==
  [][(node = "tools" /\ trace' = Append(trace, "tools")) =>
       LET calls == messages[Len(messages)].tool_calls
           last == messages'[Len(messages')]
       IN  /\ Len(messages') = Len(messages) + Len(calls)
           /\ \A i \in 1..Len(calls) :
                /\ messages'[Len(messages) + i].type = "tool"
                /\ messages'[Len(messages) + i].name = calls[i].name
           /\ (node' = "__end__") <=>
                (last.name = "save_daily_plan"
                   /\ ~BeginsWithFailMark(last.content))
           /\ (node' # "__end__") => node' = "agent"]_vars

\* C1 witness: a batch of two calls ending with a save has run and the loop
\* is at END.
C1_Witness ==
  /\ phase = "running" /\ LastNode = "tools" /\ node = "__end__"
  /\ Len(messages) >= base + 3
  /\ LastMessage.name = "save_daily_plan"

\* C2: the turn ends through TOOLS -> END only when the save_daily_plan call
\* whose result is the last message wrote the plan to the plan store.
C2_EndOnlyAfterWrite ==
  (LastNode = "tools" /\ node = "__end__") =>
     (lastWrote /\ LastMessage.content \in DOMAIN files)

\* C3: the loop starts in AGENT; a step of the AGENT state appends one
\* assistant message and the next state is TOOLS exactly when that message
\* carries at least one tool call, otherwise END.
C3_AgentTransition ==
  [][/\ (phase = "idle" /\ phase' = "running") =>
          (node' = "agent" /\ trace' = <<>>)
     /\ (trace' # <<>>) => trace'[1] = "agent"
     /\ (node = "agent" /\ trace' = Append(trace, "agent")) =>
          LET response == messages'[Len(messages')]
          IN  /\ Len(messages') = Len(messages) + 1
              /\ response.type = "ai"
              /\ (node' = "tools") <=> (Len(response.tool_calls) >= 1)
              /\ (node' # "tools") => node' = "__end__"]_vars

\* C3 witness: an AGENT step whose response requested tools has run.
C3_Witness ==
  /\ phase = "running" /\ LastNode = "agent" /\ node = "tools"
  /\ LastMessage.tool_calls # <<>>

\* progress of a chat() call: its phase, then the node steps it has run
TurnMeasure ==
  (CASE phase = "idle" -> 0 [] phase = "running" -> 100 [] OTHER -> 200)
    + Len(trace)

\* C4: every turn terminates: a turn never runs more than 10 node steps nor
\* more than 5 LLM invocations, a turn cut by the ceiling returns a
\* failure-marked text, a call that has not returned can always take a step,
\* and every step moves the call forward.
C4_TurnTerminates ==
  /\ [](/\ Len(trace) <= 10
        /\ LLMInvocations <= 5
        /\ (phase = "returned" /\ node # "__end__") =>
              BeginsWithFailMark(returned)
        /\ phase \in {"returned", "raised"} \/ ENABLED Next)
  /\ [][TurnMeasure' > TurnMeasure]_vars

\* C4 witness: an LLM that kept requesting tools was cut at the ceiling.
C4_Witness ==
  /\ phase = "returned" /\ node = "agent"
  /\ Len(trace) = 10 /\ LLMInvocations = 5
  /\ BeginsWithFailMark(returned)

\* C5: chat() never raises to its caller, the CLI's calls (which pass a
\* thread_id) included.
C5_ChatNeverRaises == phase # "raised"

\* C6: when the LLM invocation fails, the AGENT step appends one assistant
\* message beginning with the failure marker and moves to END; afterwards
\* no LLM invocation and no tool execution happen in the turn.
C6_LLMFailureEndsTurn ==
  [][/\ (~llmFailed /\ llmFailed') =>
          LET response == messages'[Len(messages')]
          IN  /\ Len(messages') = Len(messages) + 1
              /\ SubSeq(messages', 1, Len(messages)) = messages
              /\ response.type = "ai"
              /\ BeginsWithFailMark(response.content)
              /\ node' = "__end__"
     /\ llmFailed =>
          /\ llmFailed'
          /\ trace' = trace /\ messages' = messages /\ files' = files]_vars

\* C6 witness: a turn whose second LLM invocation failed has returned.
C6_Witness ==
  /\ phase = "returned" /\ llmFailed
  /\ trace = <<"agent", "tools", "agent">>

\* the content of the last assistant message of the turn
LastAssistantContent ==
  LET ai == {i \in (base + 1)..Len(messages) : messages[i].type = "ai"}
      last == CHOOSE i \in ai : \A j \in ai : j <= i
  IN  messages[last].content

\* C7 as stated: at END the returned text is the content of the last
\* assistant message of the turn, on every path.
C7_ReturnsLastAssistant ==
  (phase = "returned" /\ node = "__end__") => returned = LastAssistantContent

\* C7 amended: at END the returned text is the content of the last message
\* of the turn; that message is the last assistant message when the loop
\* ended from AGENT, and the save_daily_plan result when it ended from TOOLS.
C7_ReturnsFinalMessage ==
  (phase = "returned" /\ node = "__end__") =>
     /\ returned = LastMessage.content
     /\ LastNode = "agent" =>
          (LastMessage.type = "ai" /\ returned = LastAssistantContent)
     /\ LastNode = "tools" =>
          (LastMessage.type = "tool" /\ LastMessage.name = "save_daily_plan")

\* C7 witness: a turn that ended right after a save has returned the save
\* result.
C7_Witness ==
  /\ phase = "returned" /\ node = "__end__" /\ LastNode = "tools"
  /\ lastWrote /\ returned = LastMessage.content

\* C8: when the first LLM response requests save_daily_plan alone and the
\* save succeeds, the turn is AGENT, TOOLS, END with one LLM invocation and
\* the save confirmation returned unchanged; when the first response
\* requests non-save tools and the second is plain text, the turn is AGENT,
\* TOOLS, AGENT, END.
C8_Scenarios ==
  (phase = "returned" /\ node = "__end__") =>
     LET first == messages[base + 1]
         n == Len(first.tool_calls)
     IN  /\ (/\ n = 1
             /\ first.tool_calls[1].name = "save_daily_plan"
             /\ messages[base + 2].content \in DOMAIN files) =>
               /\ trace = <<"agent", "tools">>
               /\ LLMInvocations = 1 /\ ToolBatchesRun = 1
               /\ returned = messages[base + 2].content
         /\ (/\ n >= 1
             /\ \A i \in 1..n : first.tool_calls[i].name # "save_daily_plan"
             /\ Len(messages) >= base + n + 2
             /\ messages[base + n + 2].type = "ai"
             /\ messages[base + n + 2].tool_calls = <<>>) =>
               /\ trace = <<"agent", "tools", "agent">>
               /\ returned = messages[base + n + 2].content

\* C8 witness: the turn of the first scenario has returned.
C8_Witness ==
  /\ phase = "returned" /\ trace = <<"agent", "tools">>
  /\ Len(messages) = base + 2 /\ lastWrote
  /\ returned \in DOMAIN files

\* C9: once an AGENT step of a turn has selected planning mode, every later
\* AGENT step of the turn selects planning mode.
C9_ModeSticky ==
  [][(modes # <<>> /\ modes[Len(modes)] = "planning"
        /\ Len(modes') > Len(modes)) =>
       modes'[Len(modes')] = "planning"]_vars

\* ---------------------------------------------------------------------
\* Properties of the intent classifier
\* ---------------------------------------------------------------------

\* phrase p occurs in text t at offset i, letter case ignored
OccursAt(p, t, i) ==
  /\ i + Len(p) <= Len(t)
  /\ \A k \in 1..Len(p) : LowerChar(t[i + k]) = p[k]

\* a case-insensitive substring test of t against a phrase list
Signal(phrases, t) ==
  \E p \in phrases : \E i \in 0..Len(t) : OccursAt(p, t, i)

\* the number of whitespace-separated words of t
WordCount(t) ==
  Cardinality({i \in 1..Len(t) :
                 /\ t[i] \notin Whitespace
                 /\ (i = 1 \/ t[i - 1] \in Whitespace)})

\* the decision formula of the classifier over the signals of a text
Decision(t) ==
  \/ (Signal(concrete_scheduling_phrases, t) /\ Signal(activity_indicators, t))
  \/ /\ Signal(explicit_planning_indicators, t)
     /\ Signal(activity_indicators, t)
     /\ WordCount(t) >= 6
     /\ ~Signal(conversational_phrases, t)

\* t without its leading and trailing whitespace
Trimmed(t) ==
  LET inked == {i \in 1..Len(t) : t[i] \notin Whitespace}
  IN  IF inked = {} THEN <<>>
      ELSE SubSeq(t, CHOOSE i \in inked : \A j \in inked : i <= j,
                     CHOOSE i \in inked : \A j \in inked : j <= i)

\* C10 as stated: the classifier returns the decision formula over the
\* signals of the message text, and false for an absent message.
C10_DecisionOnText ==
  clsDone =>
    clsResult = (IF clsInput = NoMessage THEN FALSE
                 ELSE Decision(clsInput.content))

\* C10 amended: the classifier returns the decision formula over the signals
\* of the message text with its leading and trailing whitespace removed, and
\* false for an absent message.
C10_DecisionOnTrimmedText ==
  clsDone =>
    clsResult = (IF clsInput = NoMessage THEN FALSE
                 ELSE Decision(Trimmed(clsInput.content)))

\* C10 witness: the classifier has returned true on a text with no concrete
\* scheduling phrase, so the second disjunct of the formula decided.
C10_Witness ==
  /\ clsDone /\ clsResult /\ clsInput # NoMessage
  /\ ~Signal(concrete_scheduling_phrases, clsInput.content)

\* C11: on every text that contains no activity/time keyword the classifier
\* returns false, whatever explicit-request, concrete-scheduling or
\* conversational phrases the text contains; it returns false on
\* "Can you help me plan my day?".
C11_ActivitiesNecessary ==
  (clsDone /\ clsInput # NoMessage) =>
     /\ ~Signal(activity_indicators, clsInput.content) => ~clsResult
     /\ clsInput.content = T_HelpPlanDay => ~clsResult

\* C11 witness: the classifier has returned on a text holding an explicit
\* request and a concrete scheduling phrase but no activity keyword.
C11_Witness ==
  /\ clsDone /\ clsInput # NoMessage
  /\ Signal(explicit_planning_indicators, clsInput.content)
  /\ Signal(concrete_scheduling_phrases, clsInput.content)
  /\ ~Signal(activity_indicators, clsInput.content)

Digit == {"0", "1", "2", "3", "4", "5", "6", "7", "8", "9"}

\* t holds a clock time written H:MM or HH:MM
HasClockTime(t) ==
  \E i \in 2..(Len(t) - 2) :
     /\ t[i] = ":"
     /\ t[i - 1] \in Digit /\ t[i + 1] \in Digit /\ t[i + 2] \in Digit

\* C12: on every text that holds a clock time (any HH:MM) and an activity
\* keyword the classifier returns true, also when the text has no explicit
\* planning phrase, is short, or holds a conversational phrase.
C12_ClockTimeAndActivity ==
  (/\ clsDone /\ clsInput # NoMessage
   /\ HasClockTime(clsInput.content)
   /\ Signal(activity_indicators, clsInput.content)) => clsResult

\* ---------------------------------------------------------------------
\* Properties of context assembly
\* ---------------------------------------------------------------------

\* the stored plans that are not marked as sample
NonSamplePaths ==
  {f \in DOMAIN files :
     /\ files[f].data.plan_id # "plan_smoke_test"
     /\ ~Signal({T_SmokeMarker}, files[f].data.planning_notes)}

\* the most recently written plan that is not a sample
LatestNonSample ==
  files[CHOOSE f \in NonSamplePaths :
          \A g \in NonSamplePaths : files[g].mtime <= files[f].mtime].data

\* C13: the message list handed to the LLM at an AGENT step is the system
\* message, then the context message exactly when the step's mode is
\* planning, then the whole history of the turn in its order, tool results
\* included, and nothing else; in planning mode the context message is the
\* "no previous plans" notice when no plan that is not a sample is stored,
\* and otherwise holds the summary and the rendering of the latest such plan.
C13_MessageList ==
  [][(trace' = Append(trace, "agent")) =>
       LET planning == modes'[Len(modes')] = "planning"
           lead == IF planning THEN 2 ELSE 1
       IN  /\ Len(sent') = lead + Len(messages)
           /\ sent'[1].type = "system"
           /\ sent'[1].content =
                (IF planning THEN T_PlanningPrompt ELSE T_ChatPrompt)
           /\ SubSeq(sent', lead + 1, Len(sent')) = messages
           /\ planning =>
                /\ sent'[2].type = "ai" /\ sent'[2].tool_calls = <<>>
                /\ IF NonSamplePaths = {}
                   THEN sent'[2].content = T_NoPlansNotice
                   ELSE /\ Contains(sent'[2].content,
                                    create_plan_summary(LatestNonSample))
                        /\ Contains(sent'[2].content,
                                    format_plan_for_display(LatestNonSample))]_vars

\* C13 witness: a planning-mode AGENT step has run over a store whose newest
\* file is the sample plan and whose older file is a plan, and the context
\* it sent is not the notice.
C13_Witness ==
  /\ trace = <<"agent">> /\ modes = <<"planning">>
  /\ Len(sent) = Len(messages) + 1
  /\ NonSamplePaths # {} /\ NonSamplePaths # DOMAIN files
  /\ sent[2].content # T_NoPlansNotice

\* ---------------------------------------------------------------------
\* Properties of the plan store and its tools
\* ---------------------------------------------------------------------

\* C14: building the context of an AGENT step and the read-only entry points
\* get_plan_status and list_available_tools leave the plan store unchanged:
\* no plan file is created, modified or removed.
C14_ReadersLeaveStore ==
  [][(toolCall'.tool \in {"_get_context_message", "get_plan_status",
                          "list_available_tools"}) =>
       (files' = files /\ plansDir' = plansDir)]_vars

\* C14 witness: the context was built in planning mode over a store that
\* holds a sample plan, which the lookup passed over.
C14_Witness ==
  /\ toolCall.tool = "_get_context_message"
  /\ toolCall.args.mode = "planning"
  /\ NonSamplePaths # DOMAIN files
  /\ toolCall.content # <<>>

\* the tools of the registry the claims name
RegistryTools ==
  {"search_web", "create_daily_plan", "save_daily_plan", "load_daily_plan",
   "list_saved_plans", "update_task_status"}

\* the last tool call did not do what it was called for
ToolCallFailed ==
  CASE toolCall.tool = "save_daily_plan" ->
         toolCall.content \notin DOMAIN files
    [] toolCall.tool = "load_daily_plan" ->
         toolCall.args.plan_file \notin DOMAIN files
    [] toolCall.tool = "update_task_status" ->
         \/ toolCall.args.plan_file \notin DOMAIN files
         \/ \A i \in DOMAIN files[toolCall.args.plan_file].data.tasks :
              files[toolCall.args.plan_file].data.tasks[i].id
                # toolCall.args.task_id
    [] toolCall.tool = "create_daily_plan" ->
         \/ toolCall.args.response.kind = "raise"
         \/ ~toolCall.args.response.success
         \/ /\ toolCall.args.response.daily_plan # NoPlan
            /\ \A f \in DOMAIN files : ~Contains(toolCall.content, f)
    [] toolCall.tool = "search_web" -> searchEnv = "failing"
    [] OTHER -> FALSE

\* C15: every tool of the registry reports a failure as a returned text that
\* begins with the failure marker, and a returned text that does not begin
\* with the marker means the operation succeeded.
C15_FailuresMarked ==
  (toolCall.tool \in RegistryTools) =>
     (BeginsWithFailMark(toolCall.content) <=> ToolCallFailed)

\* C16: create_daily_plan returns the success confirmation with the storage
\* location only when the generated plan was persisted, and a failure-marked
\* message when the structured LLM call failed or reported no success or the
\* save step failed.
C16_CreateReportsPersistence ==
  (toolCall.tool = "create_daily_plan") =>
     LET response == toolCall.args.response
         persisted ==
           \E f \in DOMAIN files :
              /\ toolCall.content = T_CreatedSavedAs \o f
              /\ files[f].data.tasks = response.daily_plan.tasks
     IN  /\ StartsWith(toolCall.content, T_CreatedSavedAs) => persisted
         /\ (\/ response.kind = "raise"
             \/ ~response.success
             \/ (response.daily_plan # NoPlan /\ ~persisted)) =>
               BeginsWithFailMark(toolCall.content)

\* the sum of estimated_duration over the tasks
TotalMinutes(tasks) ==
  LET sum[i \in 0..Len(tasks)] ==
        IF i = 0 THEN 0 ELSE sum[i - 1] + tasks[i].estimated_duration
  IN  sum[Len(tasks)]

\* C17: a save of a plan whose estimated_total_duration is unset or zero
\* stores the sum of the tasks' durations, a save of a plan whose total_tasks
\* is unset stores the number of tasks, and a total that is set to a non-zero
\* value is stored unchanged; a plan persisted by create_daily_plan gets its
\* missing totals the same way.
C17_TotalsOnSave ==
  /\ [][(toolCall'.tool = "save_daily_plan"
           /\ toolCall'.content \in DOMAIN files') =>
          LET plan == toolCall'.args.plan
              stored == files'[toolCall'.content].data
          IN  /\ plan.estimated_total_duration \in {None, Some(0)} =>
                   stored.estimated_total_duration
                     = Some(TotalMinutes(plan.tasks))
              /\ plan.total_tasks = None =>
                   stored.total_tasks = Some(Len(plan.tasks))
              /\ plan.estimated_total_duration \notin {None, Some(0)} =>
                   stored.estimated_total_duration
                     = plan.estimated_total_duration
              /\ plan.total_tasks \notin {None, Some(0)} =>
                   stored.total_tasks = plan.total_tasks]_vars
  /\ [][(toolCall'.tool = "create_daily_plan"
           /\ StartsWith(toolCall'.content, T_CreatedSavedAs \o T_PathPrefix)) =>
          LET plan == toolCall'.args.response.daily_plan
              path == SubSeq(toolCall'.content, Len(T_CreatedSavedAs) + 1,
                             Len(toolCall'.content))
              stored == files'[path].data
          IN  /\ plan.estimated_total_duration \in {None, Some(0)} =>
                   stored.estimated_total_duration
                     = Some(TotalMinutes(plan.tasks))
              /\ plan.total_tasks = None =>
                   stored.total_tasks = Some(Len(plan.tasks))]_vars

\* C17 witness: a plan with a zero duration total and a task count of its
\* own was saved.
C17_Witness ==
  /\ toolCall.tool = "save_daily_plan"
  /\ toolCall.content \in DOMAIN files
  /\ toolCall.args.plan.estimated_total_duration = Some(0)
  /\ toolCall.args.plan.total_tasks = Some(5)
  /\ files[toolCall.content].data.estimated_total_duration = Some(75)

\* the text load_daily_plan answers for a date and a task count
LoadedText(date, count) ==
  T_LoadedFor \o date \o T_With \o IntText(count) \o T_Tasks

\* C18 as stated: loading a stored plan reports the date of the saved plan
\* and a task count equal to the number of tasks that were saved.
C18_RoundTrip ==
  (toolCall.tool = "load_daily_plan"
     /\ toolCall.args.plan_file \in DOMAIN files) =>
     LET stored == files[toolCall.args.plan_file].data
     IN  toolCall.content = LoadedText(stored.date, Len(stored.tasks))

\* C18 amended: a save stores the plan's date and tasks as given and the
\* plan's own total_tasks when that is set to a non-zero value, the number of
\* tasks otherwise; loading a stored plan reports the stored date and the
\* stored total_tasks.
C18_RoundTripStoredTotal ==
  /\ []((toolCall.tool = "load_daily_plan"
           /\ toolCall.args.plan_file \in DOMAIN files) =>
          LET stored == files[toolCall.args.plan_file].data
          IN  \E n \in stored.total_tasks :
                 toolCall.content = LoadedText(stored.date, n))
  /\ [][(toolCall'.tool = "save_daily_plan"
           /\ toolCall'.content \in DOMAIN files') =>
          LET plan == toolCall'.args.plan
              stored == files'[toolCall'.content].data
          IN  /\ stored.date = plan.date
              /\ stored.tasks = plan.tasks
              /\ stored.total_tasks =
                   (IF plan.total_tasks \in {None, Some(0)}
                    THEN Some(Len(plan.tasks)) ELSE plan.total_tasks)]_vars

\* C18 witness: a plan saved with a task count of its own was loaded.
C18_Witness ==
  /\ toolCall.tool = "load_daily_plan"
  /\ toolCall.args.plan_file \in DOMAIN files
  /\ files[toolCall.args.plan_file].data.total_tasks
       # Some(Len(files[toolCall.args.plan_file].data.tasks))
  /\ ~BeginsWithFailMark(toolCall.content)

\* C19: update_task_status gives the first task with the id the new status,
\* leaves every other task, every other field and every other file as they
\* were and answers a success text; when no task has the id or the file
\* cannot be read it answers a failure-marked text and leaves the store
\* unchanged.
C19_UpdateFirstMatch ==
  [][(toolCall'.tool = "update_task_status") =>
       LET plan_file == toolCall'.args.plan_file
           task_id == toolCall'.args.task_id
           matches == IF plan_file \in DOMAIN files
                      THEN {i \in DOMAIN files[plan_file].data.tasks :
                              files[plan_file].data.tasks[i].id = task_id}
                      ELSE {}
       IN  IF matches = {}
           THEN BeginsWithFailMark(toolCall'.content) /\ files' = files
           ELSE LET first == CHOOSE i \in matches : \A j \in matches : i <= j
                    old == files[plan_file].data
                    new == files'[plan_file].data
                IN  /\ ~BeginsWithFailMark(toolCall'.content)
                    /\ DOMAIN files' = DOMAIN files
                    /\ \A g \in DOMAIN files \ {plan_file} :
                         files'[g] = files[g]
                    /\ Len(new.tasks) = Len(old.tasks)
                    /\ new.tasks[first] =
                         [old.tasks[first] EXCEPT
                            !.status = toolCall'.args.new_status]
                    /\ \A i \in DOMAIN old.tasks \ {first} :
                         new.tasks[i] = old.tasks[i]
                    /\ [new EXCEPT !.tasks = old.tasks] = old]_vars

\* C19 witness: of two stored tasks with one id the first was updated and
\* the second kept its status.
C19_Witness ==
  /\ toolCall.tool = "update_task_status"
  /\ ~BeginsWithFailMark(toolCall.content)
  /\ toolCall.args.plan_file \in DOMAIN files
  /\ LET tasks == files[toolCall.args.plan_file].data.tasks
     IN  /\ tasks[1].id = tasks[2].id
         /\ tasks[1].status = "completed" /\ tasks[2].status = "pending"

\* the first position of text p in text t, 0 when p does not occur
FirstIndex(t, p) ==
  LET at == {i \in 1..(Len(t) - Len(p) + 1) : SubSeq(t, i, i + Len(p) - 1) = p}
  IN  IF at = {} THEN 0 ELSE CHOOSE i \in at : \A j \in at : i <= j

\* C20: list_saved_plans lists every stored plan, and of two stored plans
\* the one saved later comes earlier in the listing, whatever dates the
\* plans carry.
C20_NewestFirst ==
  (toolCall.tool = "list_saved_plans") =>
     /\ \A f \in DOMAIN files :
          FirstIndex(toolCall.content, file_name(f)) > 0
     /\ \A f, g \in DOMAIN files :
          files[f].saved > files[g].saved =>
             FirstIndex(toolCall.content, file_name(f))
               < FirstIndex(toolCall.content, file_name(g))

\* ---------------------------------------------------------------------
\* Claims C21..C30
\* ---------------------------------------------------------------------

\* an agent step has just run
AgentStep == trace' = Append(trace, "agent")

\* the most recent user-authored message of a message list
LatestUserMessage(msgs) ==
  LET idx == {i \in DOMAIN msgs : msgs[i].type = "human"}
  IN  IF idx = {} THEN NoMessage
      ELSE msgs[CHOOSE i \in idx : \A j \in idx : j <= i]

\* C23: at every agent step, the first of a turn and every one after a tools
\* step, the message handed to the intent classifier is the most recent
\* user-authored message of the message list, never an assistant message or
\* a tool result.
C23_ClassifierOnUserMessage ==
  [][AgentStep =>
       /\ clsInput'.type = "human"
       /\ clsInput' = LatestUserMessage(messages)]_vars

\* the internal message a plain record stands for
MessageOfRecord(rec) ==
  IF rec.role = "assistant" THEN AIMessage(rec.content, <<>>)
  ELSE HumanMessage(rec.content)

\* chat() was called with a history of plain records and has built the
\* message list of the turn
RecordsSupplied ==
  /\ phase = "running"
  /\ trace = <<>>
  /\ caller.given # <<>>
  /\ is_dict(caller.given[1])

\* C22: when chat() is given a history of plain role/content records, every
\* record of that history is in the message list of the turn as an internal
\* message, in the original order and with its content, and the new user
\* message comes last.
C22_RecordsKept ==
  RecordsSupplied =>
    /\ Len(messages) = Len(caller.given) + 1
    /\ \A i \in DOMAIN caller.given :
         messages[i] = MessageOfRecord(caller.given[i])
    /\ messages[Len(messages)].type = "human"

\* C28: chat(text, history) leaves the caller's history list unchanged: the
\* list has the same length and entries after the call as before it.
C28_CallerHistoryUnchanged == caller.after = caller.given

\* a tools step has just run
ToolsStep == trace' = Append(trace, "tools")

\* the message at i is the result of a create_daily_plan that stored a plan
CreatedAt(i) ==
  /\ messages[i].name = "create_daily_plan"
  /\ StartsWith(messages[i].content, T_CreatedSavedAs \o T_PathPrefix)

\* C30: a successful create_daily_plan does not end the turn: when the turn
\* is at END, every result of a successful create_daily_plan is followed by
\* a later response of the LLM.
C30_CreateNeverEnds ==
  node = "__end__" =>
    \A i \in DOMAIN messages :
      CreatedAt(i) =>
        \E j \in DOMAIN messages : j > i /\ messages[j].type = "ai"

\* C30 (amended): a successful create_daily_plan whose result is the last of
\* its tools step sends the loop back to the agent node and the turn is never
\* at END with that result last; a tools step goes to END only when its last
\* result is that of a save_daily_plan call the LLM requested itself.
C30_CreateLastNeverEnds ==
  /\ [](node = "__end__" /\ messages # <<>>
          => messages[Len(messages)].name # "create_daily_plan")
  /\ [][ToolsStep =>
          LET last == messages'[Len(messages')]
              calls == messages[Len(messages)].tool_calls
          IN  /\ last.name = "create_daily_plan" => node' = "agent"
              /\ node' = "__end__" =>
                    /\ last.name = "save_daily_plan"
                    /\ calls[Len(calls)].name = "save_daily_plan"]_vars

\* the turn ended with an LLM response that followed a successful
\* create_daily_plan
C30_Witness ==
  /\ node = "__end__"
  /\ messages[Len(messages)].type = "ai"
  /\ \E i \in DOMAIN messages :
       CreatedAt(i) /\ messages[i + 1].type = "ai"

\* the stored plans that are not samples, newest creation first: the plan
\* whose file was created last
MostRecentlyCreated ==
  files[CHOOSE f \in NonSamplePaths :
          \A g \in NonSamplePaths : files[g].saved <= files[f].saved].data

\* C24: after any sequence of save_daily_plan and update_task_status calls
\* the latest-plan lookup returns the most recently created plan among those
\* not marked as sample, and none when every stored plan is a sample; a
\* status update of an older plan does not change the plan it returns.
C24_LatestIsNewestCreated ==
  get_latest_plan(files).plan =
    IF NonSamplePaths = {} THEN NoPlan ELSE MostRecentlyCreated

\* the values the LLM can put into the identity and time fields of a plan
LLMPlanIds == {plan.plan_id : plan \in StorePlans}

\* C25: every stored plan carries a plan_id generated by the system, which
\* no other stored plan carries, and created_at and current_time values
\* stamped at save time; the values the LLM supplied for them are not
\* stored.
C25_StoredPlansStamped ==
  \A f \in DOMAIN files :
    /\ files[f].data.plan_id \notin LLMPlanIds
    /\ files[f].data.created_at # None
    /\ files[f].data.current_time # None
    /\ \A g \in DOMAIN files :
         g # f => files[g].data.plan_id # files[f].data.plan_id

\* the same tasks in the same order, whatever their statuses
SameTasks(before, after) ==
  /\ Len(after) = Len(before)
  /\ \A i \in DOMAIN before : [after[i] EXCEPT !.status = before[i].status]
                                = before[i]

\* C26: no step deletes a persisted plan: every plan stored at a location
\* save_daily_plan returned is stored there after the step with the tasks it
\* had, apart from their statuses, also when another plan with the same
\* date is saved within the same clock second.
C26_PlansNeverLost ==
  [][\A f \in DOMAIN files :
       /\ f \in DOMAIN files'
       /\ SameTasks(files[f].data.tasks, files'[f].data.tasks)]_vars

\* the status values of the task model
TaskStatuses == {"pending", "in_progress", "completed"}

\* C27: the status of every stored task is one of pending, in_progress and
\* completed.
C27_StatusesValid ==
  \A f \in DOMAIN files :
    \A i \in DOMAIN files[f].data.tasks :
      files[f].data.tasks[i].status \in TaskStatuses

\* the late result of thread k is in no message list
NeverMerged(k) ==
  /\ \A i \in DOMAIN session : session[i].content # worker_answer(k)
  /\ \A w \in DOMAIN workers :
       \A i \in DOMAIN workers[w].conversation_history :
         workers[w].conversation_history[i].content # worker_answer(k)

\* the assistant messages of a message list
AssistantMessages(msgs) == {i \in DOMAIN msgs : msgs[i].type = "ai"}

\* the chat input handler of the prompt it waits for has just ended
HandlerEnds == waiting # 0 /\ waiting' # waiting

\* what a step does to the session history and to the threads
HandlerStep ==
  /\ HandlerEnds =>
       /\ waiting' = 0
       /\ session' =
            Append(session,
                   AIMessage(IF workers[waiting].thread = "alive"
                             THEN T_TakingLong
                             ELSE worker_answer(waiting), <<>>))
       /\ workers'[waiting].orphaned = (workers[waiting].thread = "alive")
  /\ ~HandlerEnds =>
       Cardinality(AssistantMessages(session'))
         <= Cardinality(AssistantMessages(session))
  /\ \A k \in DOMAIN workers :
       workers[k].thread = "alive" /\ workers'[k].thread = "finished"
         => /\ workers'[k].result.completed
            /\ workers'[k].result.response = worker_answer(k)

\* C21: the handler of a submitted prompt ends by appending exactly one
\* assistant message to the session history, and no other step adds an
\* assistant message; when the thread was still alive at the deadline that
\* message is the "taking longer" text, and the result of that thread is
\* never in the session nor in the history handed to a later turn; the
\* thread is not cancelled: it can still finish, and it ends only by storing
\* its completed result.
C21_TimeoutOneMessage ==
  /\ [](/\ waiting # 0 =>
             /\ waiting = Len(workers)
             /\ session[Len(session)] = HumanMessage(workers[waiting].prompt)
        /\ \A k \in DOMAIN workers :
             /\ workers[k].orphaned => NeverMerged(k)
             /\ workers[k].orphaned /\ workers[k].thread = "alive"
                  /\ workers[k].pc = "chat" => ENABLED worker_finish(k))
  /\ [][HandlerStep]_vars

\* the result of a thread abandoned at the deadline has landed, a later
\* prompt has been answered, and the "taking longer" text is still the
\* assistant message of the abandoned prompt
C21_Witness ==
  \E k \in DOMAIN workers :
    /\ workers[k].orphaned
    /\ workers[k].thread = "finished"
    /\ workers[k].result.completed
    /\ k + 1 \in DOMAIN workers
    /\ waiting = 0
    /\ \E i \in DOMAIN session :
         /\ i + 3 = Len(session)
         /\ session[i] = HumanMessage(workers[k].prompt)
         /\ session[i + 1].content = T_TakingLong
         /\ session[Len(session)].content = worker_answer(k + 1)

\* thread w has just run the second half of an update_task_status call
WriteStep(w) ==
  /\ w \in DOMAIN workers
  /\ workers[w].pc = "loaded"
  /\ workers'[w].pc = "chat"

\* C29: writers to a plan file are not coordinated: a thread that has loaded
\* a plan file can write it back whatever the other threads do, a thread
\* abandoned at the deadline included, and what it writes is the document
\* it loaded with its own status change, not what the file holds by then
\* (last writer wins).
C29_LastWriterWins ==
  /\ [](\A w \in DOMAIN workers :
          workers[w].thread = "alive" /\ workers[w].pc = "loaded"
            => ENABLED worker_write(w))
  /\ [][\A w \in DOMAIN workers :
          WriteStep(w) =>
            LET t == workers[w].target
                loaded == workers[w].plan_data.tasks
                stored == files'[t.plan_file].data.tasks
            IN  /\ Len(stored) = Len(loaded)
                /\ \A i \in DOMAIN loaded :
                     stored[i] = IF loaded[i].id = t.task_id
                                 THEN [loaded[i] EXCEPT !.status = t.new_status]
                                 ELSE loaded[i]]_vars

\* a thread abandoned at the deadline and the thread of a later prompt have
\* each updated another task of one plan file, both calls reported success,
\* and the file holds only one of the two changes
C29_Witness ==
  \E w1, w2 \in DOMAIN workers, plan_file \in DOMAIN files :
    /\ w1 < w2
    /\ workers[w1].orphaned
    /\ \E a, b \in {"t1", "t2"} :
         /\ a # b
         /\ [plan_file |-> plan_file, task_id |-> a,
             new_status |-> "completed"] \in workers[w1].updated
         /\ [plan_file |-> plan_file, task_id |-> b,
             new_status |-> "completed"] \in workers[w2].updated
    /\ Cardinality({i \in DOMAIN files[plan_file].data.tasks :
                     files[plan_file].data.tasks[i].status = "completed"}) = 1

====
